---------------------------- MODULE Spec2Model ----------------------------
(***************************************************************************)
(* EcoTrack carbon-footprint tracker: the kWh input validator, the         *)
(* emission calculators and the routes (register, login, logout,           *)
(* calculator, history) of app.py and app1.py.                             *)
(*                                                                         *)
(* Text is a sequence of one-character strings.  A Python float obtained   *)
(* from a plain decimal literal is kept as the exact decimal               *)
(* [num |-> n, exp |-> k], meaning n / 10^k: for literals of the lengths   *)
(* drawn here, binary64 rounding is monotone and exact on the integers, so *)
(* the comparisons with 0 and 99999 agree with the exact ones.             *)
(* Python's None is the empty tuple and a present value x is <<x>>.        *)
(***************************************************************************)
EXTENDS Integers, Sequences, FiniteSets, TLC

VARIABLES
    raw,          \* the string handed to the validators
    app_ret,      \* what app.py's validate_kwh_input returned for it, or None
    app1_ret,     \* what app1.py's validate_kwh_input returned for it, or None
    calc,         \* the EmissionCalculator object in use, or None
    last_call,    \* the last calculation call: callee, argument, result or exception
    now,          \* the clock: datetime.now() and SQLite's CURRENT_TIMESTAMP
    variant,      \* the application that serves: "app" (app.py) or "app1" (app1.py)
    users,        \* the rows of table users, in insertion order
    calculations, \* the rows of table calculations, in insertion order
    session,      \* each client's Flask session: None when empty
    resp,         \* the last request served: client, route, response, what it flashed
    baseline,     \* what validate_kwh_input returned for each form text at start-up
    inflight,     \* each browser's calculator request between the steps of its thread
    committed     \* the requests whose INSERT was committed, in the order of the commits

validate_vars == <<raw, app_ret, app1_ret>>

calc_vars == <<calc, last_call>>

web_vars == <<variant, users, calculations, session, resp, baseline>>

server_vars == <<inflight, committed>>

vars == <<validate_vars, calc_vars, now, web_vars, server_vars>>

None == <<>>

Some(x) == <<x>>

-----------------------------------------------------------------------------
(* Characters and str methods *)

Digits == <<"0", "1", "2", "3", "4", "5", "6", "7", "8", "9">>

UpperCase == <<"A", "B", "C", "D", "E", "F", "G", "H", "I", "J", "K", "L", "M",
               "N", "O", "P", "Q", "R", "S", "T", "U", "V", "W", "X", "Y", "Z">>

LowerCase == <<"a", "b", "c", "d", "e", "f", "g", "h", "i", "j", "k", "l", "m",
               "n", "o", "p", "q", "r", "s", "t", "u", "v", "w", "x", "y", "z">>

WhiteSpace == {" ", "\t", "\n", "\r"}

IsDigit(c) == c \in {Digits[i] : i \in 1..10}

DigitOf == [c \in {Digits[i] : i \in 1..10} |-> (CHOOSE i \in 1..10 : Digits[i] = c) - 1]

DigitVal(c) == DigitOf[c]

IsLetter(c) == c \in {UpperCase[i] : i \in 1..26} \cup {LowerCase[i] : i \in 1..26}

\* str.lower on the upper-case letters
LowerOf ==
    [c \in {UpperCase[i] : i \in 1..26} |->
        LowerCase[CHOOSE i \in 1..26 : UpperCase[i] = c]]

Lower(c) == IF c \in DOMAIN LowerOf THEN LowerOf[c] ELSE c

LowerStr(s) == [i \in 1..Len(s) |-> Lower(s[i])]

RECURSIVE lstrip(_)
lstrip(s) ==
    IF s # <<>> /\ Head(s) \in WhiteSpace THEN lstrip(Tail(s)) ELSE s

RECURSIVE rstrip(_)
rstrip(s) ==
    IF s # <<>> /\ s[Len(s)] \in WhiteSpace
    THEN rstrip(SubSeq(s, 1, Len(s) - 1))
    ELSE s

strip(s) == rstrip(lstrip(s))

\* re.search of a literal: the literal occurs somewhere in s
HasSub(s, lit) ==
    \E i \in 1..(Len(s) - Len(lit) + 1) : SubSeq(s, i, i + Len(lit) - 1) = lit


-----------------------------------------------------------------------------
(* Plain decimals: re.fullmatch(r"-?\d+(?:\.\d+)?", s) and float(s) *)

AllDigits(s) == \A i \in 1..Len(s) : IsDigit(s[i])

Unsigned(s) == IF s # <<>> /\ Head(s) = "-" THEN Tail(s) ELSE s

HasDot(s) == \E i \in 1..Len(s) : s[i] = "."

DotAt(s) == CHOOSE i \in 1..Len(s) : s[i] = "." /\ \A j \in 1..(i - 1) : s[j] # "."

IntPart(s) == IF HasDot(s) THEN SubSeq(s, 1, DotAt(s) - 1) ELSE s

FracPart(s) == IF HasDot(s) THEN SubSeq(s, DotAt(s) + 1, Len(s)) ELSE <<>>

fullmatch_decimal(s) ==
    LET u == Unsigned(s)
    IN  /\ IntPart(u) # <<>>
        /\ AllDigits(IntPart(u))
        /\ HasDot(u) => (FracPart(u) # <<>> /\ AllDigits(FracPart(u)))

RECURSIVE DigitsValue(_)
DigitsValue(s) ==
    IF s = <<>> THEN 0
    ELSE 10 * DigitsValue(SubSeq(s, 1, Len(s) - 1)) + DigitVal(s[Len(s)])

RECURSIVE Pow10(_)
Pow10(k) == IF k = 0 THEN 1 ELSE 10 * Pow10(k - 1)

\* float(s) for s matching the plain-decimal pattern
float(s) ==
    LET u == Unsigned(s)
        m == DigitsValue(IntPart(u) \o FracPart(u))
    IN  [num |-> IF u = s THEN m ELSE 0 - m, exp |-> Len(FracPart(u))]

\* v <= n and v > n for a float v and an integer n
FloatLeq(v, n) == v.num <= n * Pow10(v.exp)

FloatGt(v, n) == v.num > n * Pow10(v.exp)

\* v == w on floats
FloatEq(v, w) ==
    LET e == IF v.exp > w.exp THEN v.exp ELSE w.exp
    IN  v.num * Pow10(e - v.exp) = w.num * Pow10(e - w.exp)

-----------------------------------------------------------------------------
(* validate_kwh_input, app.py and app1.py *)

MAX_KWH == 99999

MSG_EMPTY == <<"Please enter a value.">>

MSG_NUMBER == <<"Please enter a valid number.">>

MSG_POSITIVE == <<"Value must be greater than 0.">>

MSG_EXCEED == <<"Value cannot exceed 99,999.">>

MSG_DETECTED == <<"Invalid input detected.">>

Ret(is_valid, error, value) ==
    [is_valid |-> is_valid, error |-> error, value |-> value]

\* range checks with a slip: zero passes the lower check (kwh < 0)
range_check_zero(trimmed) ==
    LET kwh == float(trimmed)
    IN  IF kwh.num < 0 THEN Ret(FALSE, MSG_POSITIVE, None)
        ELSE IF FloatGt(kwh, MAX_KWH) THEN Ret(FALSE, MSG_EXCEED, None)
        ELSE Ret(TRUE, None, Some(kwh))

\* range checks with a slip: the upper bound itself is refused (kwh >= 99999)
range_check_upper(trimmed) ==
    LET kwh == float(trimmed)
    IN  IF FloatLeq(kwh, 0) THEN Ret(FALSE, MSG_POSITIVE, None)
        ELSE IF kwh.num >= MAX_KWH * Pow10(kwh.exp) THEN Ret(FALSE, MSG_EXCEED, None)
        ELSE Ret(TRUE, None, Some(kwh))

\* range checks with a slip: the upper check truncates (int(kwh) > 99999)
range_check_trunc(trimmed) ==
    LET kwh == float(trimmed)
    IN  IF FloatLeq(kwh, 0) THEN Ret(FALSE, MSG_POSITIVE, None)
        ELSE IF kwh.num \div Pow10(kwh.exp) > MAX_KWH THEN Ret(FALSE, MSG_EXCEED, None)
        ELSE Ret(TRUE, None, Some(kwh))

\* range checks with a slip: the upper-bound message is built from the number,
\* as ElectricityEmissionCalculator.validate_input builds its own
range_check_msg(trimmed) ==
    LET kwh == float(trimmed)
    IN  IF FloatLeq(kwh, 0) THEN Ret(FALSE, MSG_POSITIVE, None)
        ELSE IF FloatGt(kwh, MAX_KWH) THEN Ret(FALSE, <<"Value cannot exceed 99999">>, None)
        ELSE Ret(TRUE, None, Some(kwh))

\* range checks with a slip: the lower-bound message is the calculator's, which
\* has no full stop
range_check_msg0(trimmed) ==
    LET kwh == float(trimmed)
    IN  IF FloatLeq(kwh, 0) THEN Ret(FALSE, <<"Value must be greater than 0">>, None)
        ELSE IF FloatGt(kwh, MAX_KWH) THEN Ret(FALSE, MSG_EXCEED, None)
        ELSE Ret(TRUE, None, Some(kwh))

\* range checks with a slip: the parsed value is returned with a rejection
range_check_leak(trimmed) ==
    LET kwh == float(trimmed)
    IN  IF FloatLeq(kwh, 0) THEN Ret(FALSE, MSG_POSITIVE, Some(kwh))
        ELSE IF FloatGt(kwh, MAX_KWH) THEN Ret(FALSE, MSG_EXCEED, Some(kwh))
        ELSE Ret(TRUE, None, Some(kwh))

\* app.py lines 89-106 (and app1.py lines 1061-1074): the range checks
range_check(trimmed) ==
    LET kwh == float(trimmed)
    IN  IF FloatLeq(kwh, 0) THEN Ret(FALSE, MSG_POSITIVE, None)
        ELSE IF FloatGt(kwh, MAX_KWH) THEN Ret(FALSE, MSG_EXCEED, None)
        ELSE Ret(TRUE, None, Some(kwh))

\* validate_kwh_input with a slip: a leading '+' is dropped before the pattern
validate_kwh_input_plus(kwh_input_str) ==
    IF kwh_input_str = <<>> \/ strip(kwh_input_str) = <<>>
    THEN Ret(FALSE, MSG_EMPTY, None)
    ELSE LET stripped == strip(kwh_input_str)
             trimmed == IF Head(stripped) = "+" THEN Tail(stripped) ELSE stripped
         IN  IF ~fullmatch_decimal(trimmed)
             THEN Ret(FALSE, MSG_NUMBER, None)
             ELSE range_check(trimmed)

\* validate_kwh_input with a slip: it reads the store, and refuses a value that
\* the history already holds
validate_kwh_input_seen(kwh_input_str) ==
    IF kwh_input_str = <<>> \/ strip(kwh_input_str) = <<>>
    THEN Ret(FALSE, MSG_EMPTY, None)
    ELSE LET trimmed == strip(kwh_input_str)
         IN  IF ~fullmatch_decimal(trimmed)
             THEN Ret(FALSE, MSG_NUMBER, None)
             ELSE IF \E i \in 1..Len(calculations) :
                        calculations[i].kwh_input = float(trimmed)
             THEN Ret(FALSE, MSG_NUMBER, None)
             ELSE range_check(trimmed)

\* validate_kwh_input with a slip: the empty check does not trim
validate_kwh_input_nostrip(kwh_input_str) ==
    IF kwh_input_str = <<>>
    THEN Ret(FALSE, MSG_EMPTY, None)
    ELSE LET trimmed == strip(kwh_input_str)
         IN  IF ~fullmatch_decimal(trimmed)
             THEN Ret(FALSE, MSG_NUMBER, None)
             ELSE range_check(trimmed)

validate_kwh_input(kwh_input_str) ==
    IF kwh_input_str = <<>> \/ strip(kwh_input_str) = <<>>
    THEN Ret(FALSE, MSG_EMPTY, None)
    ELSE LET trimmed == strip(kwh_input_str)
         IN  IF ~fullmatch_decimal(trimmed)
             THEN Ret(FALSE, MSG_NUMBER, None)
             ELSE range_check(trimmed)

\* re.search(r'[<>"\']|script|alert|onerror', trimmed, re.IGNORECASE)
xss_search(trimmed) ==
    LET low == LowerStr(trimmed)
    IN  \/ \E i \in 1..Len(trimmed) : trimmed[i] \in {"<", ">", "\"", "'"}
        \/ HasSub(low, <<"s", "c", "r", "i", "p", "t">>)
        \/ HasSub(low, <<"a", "l", "e", "r", "t">>)
        \/ HasSub(low, <<"o", "n", "e", "r", "r", "o", "r">>)

\* the SQL screen with a slip: one '-' is enough where the pattern asks for two
sql_search_dash(trimmed) ==
    LET low == LowerStr(trimmed)
    IN  \/ HasSub(low, <<"-">>)
        \/ HasSub(low, <<";">>)
        \/ HasSub(low, <<"/", "*">>)
        \/ HasSub(low, <<"*", "/">>)
        \/ HasSub(low, <<"x", "p", "_">>)
        \/ HasSub(low, <<"s", "p", "_">>)
        \/ HasSub(low, <<"d", "r", "o", "p">>)
        \/ HasSub(low, <<"i", "n", "s", "e", "r", "t">>)
        \/ HasSub(low, <<"d", "e", "l", "e", "t", "e">>)
        \/ HasSub(low, <<"u", "p", "d", "a", "t", "e">>)

\* re.search(r'(--|;|\/\*|\*\/|xp_|sp_|DROP|INSERT|DELETE|UPDATE)', trimmed, re.IGNORECASE)
sql_search(trimmed) ==
    LET low == LowerStr(trimmed)
    IN  \/ HasSub(low, <<"-", "-">>)
        \/ HasSub(low, <<";">>)
        \/ HasSub(low, <<"/", "*">>)
        \/ HasSub(low, <<"*", "/">>)
        \/ HasSub(low, <<"x", "p", "_">>)
        \/ HasSub(low, <<"s", "p", "_">>)
        \/ HasSub(low, <<"d", "r", "o", "p">>)
        \/ HasSub(low, <<"i", "n", "s", "e", "r", "t">>)
        \/ HasSub(low, <<"d", "e", "l", "e", "t", "e">>)
        \/ HasSub(low, <<"u", "p", "d", "a", "t", "e">>)

validate_kwh_input1(kwh_input_str) ==
    IF kwh_input_str = <<>> \/ strip(kwh_input_str) = <<>>
    THEN Ret(FALSE, MSG_EMPTY, None)
    ELSE LET trimmed == strip(kwh_input_str)
         IN  IF xss_search(trimmed) THEN Ret(FALSE, MSG_DETECTED, None)
             ELSE IF sql_search(trimmed) THEN Ret(FALSE, MSG_DETECTED, None)
             ELSE IF ~fullmatch_decimal(trimmed)
             THEN Ret(FALSE, MSG_NUMBER, None)
             ELSE range_check(trimmed)

-----------------------------------------------------------------------------
(* Emission factors and calculators, app.py and app1.py *)

\* a * b on floats
FloatMul(a, b) == [num |-> a.num * b.num, exp |-> a.exp + b.exp]

\* isinstance(value, (int, float)): a number is a record with a num field; a
\* str value is [str |-> text]
IsNumber(value) == "num" \in DOMAIN value

EMISSION_FACTOR_KWH == [num |-> 37, exp |-> 2]

\* calculate_co2_emission with a slip: the result is rounded to 2 decimals
calculate_co2_emission_round(kwh) ==
    LET r == FloatMul(kwh, EMISSION_FACTOR_KWH)
    IN  IF r.exp <= 2 THEN r
        ELSE [num |-> (r.num + 5 * Pow10(r.exp - 3)) \div Pow10(r.exp - 2), exp |-> 2]

calculate_co2_emission(kwh) == FloatMul(kwh, EMISSION_FACTOR_KWH)

Raise(type, msg) == [raised |-> Some([type |-> type, msg |-> msg])]

Return(x) == [raised |-> None, ret |-> x]

\* EmissionCalculator.__init__; _validate_factor passes for every factor used
EmissionCalculator(cls, emission_factor) ==
    [cls |-> cls, _emission_factor |-> emission_factor, _calculation_history |-> <<>>]

ElectricityEmissionCalculator ==
    EmissionCalculator("ElectricityEmissionCalculator", [num |-> 37, exp |-> 2])
        @@ [max_kwh |-> 99999, min_kwh |-> 0]

VEHICLE_FACTORS ==
    [car |-> [num |-> 21, exp |-> 2],
     bus |-> [num |-> 89, exp |-> 3],
     train |-> [num |-> 41, exp |-> 3],
     bike |-> [num |-> 0, exp |-> 1],
     electric_car |-> [num |-> 5, exp |-> 2]]

\* VEHICLE_FACTORS.get(vehicle_type, 0.21)
TransportEmissionCalculator(vehicle_type) ==
    EmissionCalculator("TransportEmissionCalculator",
                       IF vehicle_type \in DOMAIN VEHICLE_FACTORS
                       THEN VEHICLE_FACTORS[vehicle_type]
                       ELSE [num |-> 21, exp |-> 2])
        @@ [vehicle_type |-> vehicle_type]

WaterEmissionCalculator ==
    EmissionCalculator("WaterEmissionCalculator", [num |-> 15, exp |-> 4])

\* validate_input with a slip: TransportEmissionCalculator compares with <= 0,
\* as WaterEmissionCalculator does
validate_input_positive(self, value) ==
    CASE self.cls = "ElectricityEmissionCalculator" ->
            IF ~IsNumber(value) THEN Raise("TypeError", "Input must be numeric")
            ELSE IF FloatLeq(value, self.min_kwh)
            THEN Raise("ValueError", "Value must be greater than 0")
            ELSE IF FloatGt(value, self.max_kwh)
            THEN Raise("ValueError", "Value cannot exceed 99999")
            ELSE Return(TRUE)
      [] self.cls = "TransportEmissionCalculator" ->
            IF ~IsNumber(value) THEN Raise("TypeError", "Distance must be numeric")
            ELSE IF FloatLeq(value, 0) THEN Raise("ValueError", "Distance cannot be negative")
            ELSE IF FloatGt(value, 10000) THEN Raise("ValueError", "Distance too large")
            ELSE Return(TRUE)
      [] self.cls = "WaterEmissionCalculator" ->
            IF ~IsNumber(value) THEN Raise("TypeError", "Input must be numeric")
            ELSE IF FloatLeq(value, 0) THEN Raise("ValueError", "Value must be positive")
            ELSE IF FloatGt(value, 100000) THEN Raise("ValueError", "Value too large")
            ELSE Return(TRUE)

validate_input(self, value) ==
    CASE self.cls = "ElectricityEmissionCalculator" ->
            IF ~IsNumber(value) THEN Raise("TypeError", "Input must be numeric")
            ELSE IF FloatLeq(value, self.min_kwh)
            THEN Raise("ValueError", "Value must be greater than 0")
            ELSE IF FloatGt(value, self.max_kwh)
            THEN Raise("ValueError", "Value cannot exceed 99999")
            ELSE Return(TRUE)
      [] self.cls = "TransportEmissionCalculator" ->
            IF ~IsNumber(value) THEN Raise("TypeError", "Distance must be numeric")
            ELSE IF value.num < 0 THEN Raise("ValueError", "Distance cannot be negative")
            ELSE IF FloatGt(value, 10000) THEN Raise("ValueError", "Distance too large")
            ELSE Return(TRUE)
      [] self.cls = "WaterEmissionCalculator" ->
            IF ~IsNumber(value) THEN Raise("TypeError", "Input must be numeric")
            ELSE IF FloatLeq(value, 0) THEN Raise("ValueError", "Value must be positive")
            ELSE IF FloatGt(value, 100000) THEN Raise("ValueError", "Value too large")
            ELSE Return(TRUE)

_record_calculation(self, value, result, timestamp) ==
    [self EXCEPT !._calculation_history =
        Append(@, [input |-> value, output |-> result, timestamp |-> timestamp,
                   calculator_type |-> self.cls])]

\* calculate of the three subclasses: the object afterwards, and the result or
\* the exception
calculate(self, value, timestamp) ==
    LET checked == validate_input(self, value)
        result == FloatMul(value, self._emission_factor)
    IN  IF checked.raised # None
        THEN [self |-> self, out |-> checked]
        ELSE [self |-> _record_calculation(self, value, result, timestamp),
              out |-> Return(result)]

\* a reference to a list: the list object it points to and the entries that
\* object holds; "internal" is the list in self._calculation_history
ListRef(object, items) == [object |-> object, items |-> items]

\* get_history with a slip: the list itself is returned
list_itself(items) == ListRef("internal", items)

\* list.copy(): a new list object with the same entries
list_copy(items) == ListRef("new", items)

get_history(self) == list_copy(self._calculation_history)

-----------------------------------------------------------------------------
(* The raw strings the validators are applied to *)

MaxLen == 3

MaxIntDigits == 6

MaxFracDigits == 1

Alphabet == {"0", "1", "9", ".", "-", "+", ",", "e", "a", " ", ";"}

DecDigits == {"0", "1", "9"}

FracDigits == {"0", "9"}

Words(A, lo, hi) == UNION {[1..n -> A] : n \in lo..hi}

FreeStrings == Words(Alphabet, 0, MaxLen)

DecimalStrings ==
    {sg \o ip \o fp :
        sg \in {<<>>, <<"-">>},
        ip \in Words(DecDigits, 1, MaxIntDigits),
        fp \in {<<>>} \cup {<<".">> \o f : f \in Words(FracDigits, 1, MaxFracDigits)}}

\* the literals of test_comprehensive.py, test_regression.py and of the
\* specification's scenarios
Corpus ==
    { <<" ", " ", " ">>,
      <<"a", "b", "c">>,
      <<"-", "1", "0", "0">>,
      <<"1", "0", "0", "0", "0", "0">>,
      <<"5", "0", "0">>,
      <<"5", "0", "0", "0">>,
      <<"1", "5", "0", "0", "0", "0">>,
      <<"9", "9", "9", "9", "9">>,
      <<"9", "9", "9", "9", "9", ".", "5">>,
      <<"1", "2", "3", ".", "4", "5">>,
      <<"1", ",", "0", "0", "0">>,
      <<"1", "e", "3">>,
      <<"1", "E", "3">>,
      <<"+", "1", "0", "0">>,
      <<"-", "0">>,
      <<"0", ".", "0">>,
      <<" ", "5", "0", "0", "\t">>,
      <<"1", "'", ";", " ", "D", "R", "O", "P", " ", "T", "A", "B", "L", "E", " ",
        "u", "s", "e", "r", "s", ";", " ", "-", "-">>,
      <<"<", "s", "c", "r", "i", "p", "t", ">">>,
      <<"D", "r", "o", "p">>,
      <<"A", "L", "E", "R", "T">>,
      <<"1", "/", "*", "2">> }

Inputs == FreeStrings \cup DecimalStrings \cup Corpus

-----------------------------------------------------------------------------
(* The validators applied to one raw string *)

InitValidate ==
    /\ raw \in Inputs
    /\ app_ret = None
    /\ app1_ret = None
    /\ calc = None
    /\ last_call = None
    /\ now = 0
    /\ variant = "app"
    /\ users = <<>>
    /\ calculations = <<>>
    /\ session = <<>>
    /\ resp = None
    /\ inflight = <<>>
    /\ committed = <<>>
    /\ baseline = <<>>

CallValidate ==
    /\ app_ret = None
    /\ app_ret' = Some(validate_kwh_input(raw))
    /\ UNCHANGED <<server_vars, raw, app1_ret, calc_vars, now, web_vars>>

CallValidate1 ==
    /\ app1_ret = None
    /\ app1_ret' = Some(validate_kwh_input1(raw))
    /\ UNCHANGED <<server_vars, raw, app_ret, calc_vars, now, web_vars>>

NextValidate == CallValidate \/ CallValidate1

SpecValidate == InitValidate /\ [][NextValidate]_vars

-----------------------------------------------------------------------------
(* Claims about validate_kwh_input, checked under SpecValidate *)

Returned(ret) == ret # None

Blank(s) == \A i \in 1..Len(s) : s[i] \in {" ", "\t", "\n", "\r"}

\* the trimmed input is a plain decimal: optional '-', digits, optional '.' digits
PlainDecimal(s) == fullmatch_decimal(strip(s))

ValueOf(s) == float(strip(s))

Positive(v) == v.num > 0

AtMost99999(v) == v.num <= 99999 * Pow10(v.exp)

\* C1: whenever either validate_kwh_input reports the input valid, the value it
\* returns is a number v with 0 < v <= 99999.
C1_AcceptedValueInRange ==
    \A ret \in {app_ret, app1_ret} :
        (Returned(ret) /\ ret[1].is_valid) =>
            /\ ret[1].value # None
            /\ Positive(ret[1].value[1])
            /\ AtMost99999(ret[1].value[1])

\* C1 witness: "99999" has been validated by both and accepted
C1_Witness ==
    /\ raw = <<"9", "9", "9", "9", "9">>
    /\ Returned(app_ret) /\ app_ret[1].is_valid
    /\ Returned(app1_ret) /\ app1_ret[1].is_valid

\* C2: an input whose trimmed text is a plain decimal of value v, 0 < v <= 99999,
\* is accepted by app.py's validate_kwh_input with exactly the value v; "99999"
\* gives 99999.0 and "500" gives 500.0.
C2_InRangeDecimalAccepted ==
    Returned(app_ret) =>
        /\ (PlainDecimal(raw) /\ Positive(ValueOf(raw)) /\ AtMost99999(ValueOf(raw))) =>
              app_ret[1] = [is_valid |-> TRUE, error |-> None,
                            value |-> Some(ValueOf(raw))]
        /\ raw = <<"9", "9", "9", "9", "9">> =>
              app_ret[1].value = Some([num |-> 99999, exp |-> 0])
        /\ raw = <<"5", "0", "0">> =>
              app_ret[1].value = Some([num |-> 500, exp |-> 0])
        /\ raw = <<" ", "5", "0", "0", "\t">> =>
              app_ret[1].value = Some([num |-> 500, exp |-> 0])
        /\ raw = <<"1", "2", "3", ".", "4", "5">> =>
              app_ret[1].value = Some([num |-> 12345, exp |-> 2])

\* C2 witness: the padded " 500\t" has been validated and accepted
C2_Witness ==
    /\ raw = <<" ", "5", "0", "0", "\t">>
    /\ Returned(app_ret) /\ app_ret[1].is_valid

\* C3: an empty or whitespace-only input is rejected by app.py's
\* validate_kwh_input with "Please enter a value." and no value, whatever else
\* the later steps would say.
C3_BlankRejected ==
    (Returned(app_ret) /\ Blank(raw)) =>
        app_ret[1] = [is_valid |-> FALSE, error |-> <<"Please enter a value.">>,
                      value |-> None]

\* C3 witness: the whitespace-only "   " has been validated
C3_Witness == raw = <<" ", " ", " ">> /\ Returned(app_ret)

\* the inputs C4 is about: not blank, and holding a letter, a comma or a leading '+'
\* (scientific notation holds the letter e or E)
Unusual(s) ==
    /\ ~Blank(s)
    /\ \/ \E i \in 1..Len(s) : IsLetter(s[i]) \/ s[i] = ","
       \/ Head(strip(s)) = "+"

RejectedWith(ret, msg) ==
    ret[1] = [is_valid |-> FALSE, error |-> <<msg>>, value |-> None]

\* what app1.py screens before the pattern: the characters < > " ' and, in any
\* letter case, script alert onerror -- ; /* */ xp_ sp_ DROP INSERT DELETE UPDATE
Screened(s) ==
    LET t == LowerStr(strip(s))
    IN  \/ \E i \in 1..Len(t) : t[i] \in {"<", ">", "\"", "'", ";"}
        \/ \E w \in { <<"s", "c", "r", "i", "p", "t">>, <<"a", "l", "e", "r", "t">>,
                      <<"o", "n", "e", "r", "r", "o", "r">>, <<"-", "-">>,
                      <<"/", "*">>, <<"*", "/">>, <<"x", "p", "_">>,
                      <<"s", "p", "_">>, <<"d", "r", "o", "p">>,
                      <<"i", "n", "s", "e", "r", "t">>,
                      <<"d", "e", "l", "e", "t", "e">>,
                      <<"u", "p", "d", "a", "t", "e">> } : HasSub(t, w)

C5_NonPositiveRejected ==
    (Returned(app_ret) /\ PlainDecimal(raw) /\ ~Positive(ValueOf(raw))) =>
        RejectedWith(app_ret, "Value must be greater than 0.")

\* C5 witness: "-0" has been validated
C5_Witness == raw = <<"-", "0">> /\ Returned(app_ret)

\* C6: a plain decimal of value v > 99999 is rejected by app.py's
\* validate_kwh_input with "Value cannot exceed 99,999.".
C6_AboveMaxRejected ==
    (Returned(app_ret) /\ PlainDecimal(raw) /\ ~AtMost99999(ValueOf(raw))) =>
        RejectedWith(app_ret, "Value cannot exceed 99,999.")

\* C6 witness: "99999.5" has been validated
C6_Witness == raw = <<"9", "9", "9", "9", "9", ".", "5">> /\ Returned(app_ret)

FourReasons ==
    { <<"Please enter a value.">>, <<"Please enter a valid number.">>,
      <<"Value must be greater than 0.">>, <<"Value cannot exceed 99,999.">> }

C8_OutcomeShape ==
    \A ret \in {app_ret, app1_ret} :
        Returned(ret) =>
            \/ /\ ret[1].is_valid = TRUE
               /\ ret[1].error = None
               /\ ret[1].value # None
               /\ ret[1].value[1].num \in Int
            \/ /\ ret[1].is_valid = FALSE
               /\ ret[1].error # None
               /\ ret[1].error[1] # ""
               /\ ret[1].value = None

\* C8 witness: "1" has been validated by both and accepted with value 1
C8_Witness ==
    /\ raw = <<"1">>
    /\ Returned(app_ret) /\ Returned(app1_ret)
    /\ app_ret[1].is_valid /\ app1_ret[1].is_valid
    /\ FloatEq(app_ret[1].value[1], [num |-> 1, exp |-> 0])

-----------------------------------------------------------------------------
(* The calculators applied to values *)

MaxHistory == 2

MaxClock == 1

VehicleTypes == {"car", "bus", "train", "bike", "electric_car", "plane"}

D(n, e) == [num |-> n, exp |-> e]

\* the values of the tests and of the specification's scenarios, the bounds of
\* the three validate_input methods, and a value that is no number;
\* calculate_co2_emission is handed the ones validate_kwh_input accepts, as
\* the calculator route does
CalcValues ==
    { D(0, 0), D(100, 0), D(500, 0), D(1000, 0), D(12345, 2), D(10000, 0),
      D(100005, 1), D(99999, 0), D(100000, 0), D(1000001, 1), D(-1, 0),
      [str |-> <<"a", "b", "c">>] }

InitCalc ==
    /\ raw = <<>>
    /\ app_ret = None
    /\ app1_ret = None
    /\ calc = None
    /\ last_call = None
    /\ now = 0
    /\ variant = "app"
    /\ users = <<>>
    /\ calculations = <<>>
    /\ session = <<>>
    /\ resp = None
    /\ inflight = <<>>
    /\ committed = <<>>
    /\ baseline = <<>>

Tick ==
    /\ now < MaxClock
    /\ now' = now + 1
    /\ UNCHANGED <<server_vars, validate_vars, calc_vars, web_vars>>

NewElectricity ==
    /\ calc' = Some(ElectricityEmissionCalculator)
    /\ last_call' = None
    /\ UNCHANGED <<server_vars, validate_vars, now, web_vars>>

NewTransport ==
    \E vehicle_type \in VehicleTypes :
        /\ calc' = Some(TransportEmissionCalculator(vehicle_type))
        /\ last_call' = None
        /\ UNCHANGED <<server_vars, validate_vars, now, web_vars>>

NewWater ==
    /\ calc' = Some(WaterEmissionCalculator)
    /\ last_call' = None
    /\ UNCHANGED <<server_vars, validate_vars, now, web_vars>>

Calculate ==
    \E value \in CalcValues :
        /\ calc # None
        /\ Len(calc[1]._calculation_history) < MaxHistory
        /\ LET done == calculate(calc[1], value, now)
           IN  /\ calc' = Some(done.self)
               /\ last_call' = Some([fn |-> "calculate", arg |-> value, out |-> done.out])
        /\ UNCHANGED <<server_vars, validate_vars, now, web_vars>>

CallCalculateCo2 ==
    \E kwh \in {v \in CalcValues : IsNumber(v) /\ ~FloatLeq(v, 0) /\ ~FloatGt(v, MAX_KWH)} :
        /\ last_call' = Some([fn |-> "calculate_co2_emission", arg |-> kwh,
                              out |-> Return(calculate_co2_emission(kwh))])
        /\ UNCHANGED <<server_vars, validate_vars, calc, now, web_vars>>

GetHistory ==
    /\ calc # None
    /\ last_call' = Some([fn |-> "get_history", arg |-> None,
                          out |-> Return(get_history(calc[1]))])
    /\ UNCHANGED <<server_vars, validate_vars, calc, now, web_vars>>

\* the caller changes the list that get_history returned: it removes the last
\* entry or empties the list; the calculator's own list changes with it when
\* the two are one object
MutateReturned ==
    /\ last_call # None
    /\ last_call[1].fn = "get_history"
    /\ last_call[1].out.ret.items # <<>>
    /\ \E items \in {<<>>, SubSeq(last_call[1].out.ret.items, 1,
                                   Len(last_call[1].out.ret.items) - 1)} :
          /\ last_call' = Some([last_call[1] EXCEPT !.out.ret.items = items])
          /\ calc' = IF last_call[1].out.ret.object = "internal"
                     THEN Some([calc[1] EXCEPT !._calculation_history = items])
                     ELSE calc
    /\ UNCHANGED <<server_vars, validate_vars, now, web_vars>>

NextCalc ==
    \/ Tick
    \/ NewElectricity
    \/ NewTransport
    \/ NewWater
    \/ Calculate
    \/ CallCalculateCo2
    \/ GetHistory
    \/ MutateReturned

SpecCalc == InitCalc /\ [][NextCalc]_vars

-----------------------------------------------------------------------------
(* Claims about the calculators, checked under SpecCalc *)

\* the factor table of the specification, in units of 0.0001 kg CO2e
FactorE4 ==
    [electricity |-> 3700, car |-> 2100, bus |-> 890, train |-> 410, bike |-> 0,
     electric_car |-> 500, water |-> 15]

\* value times factor, exactly
Times(value, category) ==
    [num |-> value.num * FactorE4[category], exp |-> value.exp + 4]

\* the category an EmissionCalculator object computes for, when it is in the table
CategoryOf(self) ==
    CASE self.cls = "ElectricityEmissionCalculator" -> "electricity"
      [] self.cls = "WaterEmissionCalculator" -> "water"
      [] self.cls = "TransportEmissionCalculator" -> self.vehicle_type

Computed(fn) ==
    /\ last_call # None
    /\ last_call[1].fn = fn
    /\ last_call[1].out.raised = None

\* C10: a computed result is the value times the category's factor of the table,
\* unrounded: app.py's calculate_co2_emission with 0.37, app1.py's calculators
\* with their category's factor; electricity 100 gives 37.0, electricity 500
\* gives 185.0, electricity 123.45 gives 45.6765 and water 1000 gives 1.5.
C10_ResultIsValueTimesFactor ==
    /\ Computed("calculate_co2_emission") =>
          /\ FloatEq(last_call[1].out.ret, Times(last_call[1].arg, "electricity"))
          /\ last_call[1].arg = D(100, 0) => FloatEq(last_call[1].out.ret, D(37, 0))
          /\ last_call[1].arg = D(500, 0) => FloatEq(last_call[1].out.ret, D(185, 0))
          /\ last_call[1].arg = D(12345, 2) => FloatEq(last_call[1].out.ret, D(456765, 4))
    /\ (Computed("calculate") /\ CategoryOf(calc[1]) \in DOMAIN FactorE4) =>
          /\ FloatEq(last_call[1].out.ret, Times(last_call[1].arg, CategoryOf(calc[1])))
          /\ (CategoryOf(calc[1]) = "electricity" /\ last_call[1].arg = D(100, 0)) =>
                FloatEq(last_call[1].out.ret, D(37, 0))
          /\ (CategoryOf(calc[1]) = "water" /\ last_call[1].arg = D(1000, 0)) =>
                FloatEq(last_call[1].out.ret, D(15, 1))

\* C10 witness: a WaterEmissionCalculator has computed 1.5 for 1000
C10_Witness ==
    /\ Computed("calculate")
    /\ CategoryOf(calc[1]) = "water"
    /\ last_call[1].arg = D(1000, 0)
    /\ FloatEq(last_call[1].out.ret, D(15, 1))

-----------------------------------------------------------------------------
(* The web application: tables, sessions and routes of app.py and app1.py.  *)
(* One action serves one request from its first statement to its response.  *)
(* Every statement that uses the database may fail (sqlite3 raises): the    *)
(* outcome of each is an input of the action.  flashed lists what the       *)
(* request passed to flash(); the templates are not part of the sources.    *)

MaxRows == 2

Clients == {"c1"}

\* the login forms that are submitted: each user with the password registered,
\* one with another password, and one without a username
LoginForms ==
    { [username |-> <<"a", "l">>, password |-> <<"s", "e", "c", "r", "e", "t">>],
      [username |-> <<"b", "o">>, password |-> <<"s", "e", "c", "r", "e", "t">>],
      [username |-> <<"a", "l">>, password |-> <<"a", "b", "c">>],
      [username |-> <<>>, password |-> <<"s", "e", "c", "r", "e", "t">>] }

Form(username, email, password, confirm_password) ==
    [username |-> username, email |-> email, password |-> password,
     confirm_password |-> confirm_password]

\* the registration forms that are submitted: two complete ones, one that
\* repeats the e-mail address of another, and one for each way of being refused
RegisterForms ==
    { Form(<<"a", "l">>, <<"a", "@", "x">>, <<"s", "e", "c", "r", "e", "t">>,
           <<"s", "e", "c", "r", "e", "t">>),
      Form(<<"b", "o">>, <<"b", "@", "x">>, <<"s", "e", "c", "r", "e", "t">>,
           <<"s", "e", "c", "r", "e", "t">>),
      Form(<<"b", "o">>, <<"a", "@", "x">>, <<"s", "e", "c", "r", "e", "t">>,
           <<"s", "e", "c", "r", "e", "t">>),
      Form(<<>>, <<"a", "@", "x">>, <<"s", "e", "c", "r", "e", "t">>,
           <<"s", "e", "c", "r", "e", "t">>),
      Form(<<"<", "b", ">">>, <<"b", "@", "x">>, <<"s", "e", "c", "r", "e", "t">>,
           <<"s", "e", "c", "r", "e", "t">>),
      Form(<<"a", "l">>, <<"a", "@", "x">>, <<"s", "e", "c", "r", "e", "t">>,
           <<"a", "b", "c">>),
      Form(<<"a", "l">>, <<"a", "@", "x">>, <<"a", "b", "c">>, <<"a", "b", "c">>) }

\* what is typed into the kwh field
FormInputs ==
    { <<" ", "5", "0", "0">>, <<"0">>, <<"a", "b", "c">>, <<>> }

\* werkzeug's salted hash, kept as the password it was made from
generate_password_hash(password) == [pbkdf2 |-> password]

check_password_hash(pwhash, password) == pwhash = generate_password_hash(password)

\* which database statements of a request succeed: the first statement of the
\* view (a SELECT or the INSERT of save_calculation), a later INSERT of the view,
\* and, in app1.py, the INSERT of monitor_performance; a statement that is not
\* reached has no outcome, so it is listed as succeeding only
DbOutcomes ==
    {o \in [first_ok : BOOLEAN, then_ok : BOOLEAN, metrics_ok : BOOLEAN] :
        /\ ~o.first_ok => o.then_ok
        /\ variant = "app" => o.metrics_ok}

\* the outcomes of a view with one statement
OneStatement == {o \in DbOutcomes : o.then_ok}

\* a request that is turned away at the login check reads neither its form nor
\* the database: one form and one outcome stand for all of them
ReadBy(c, inputs) == IF session[c] # <<>> THEN inputs ELSE {CHOOSE i \in inputs : TRUE}

Flash(message, category) == [message |-> message, category |-> category]

render_template(name, context) ==
    [kind |-> "render", template |-> name, context |-> context]

redirect(endpoint) == [kind |-> "redirect", endpoint |-> endpoint]

\* Flask's answer to an exception that leaves a view
InternalServerError == [kind |-> "error", status |-> 500]

NoContext == [none |-> TRUE]

LoggedIn(c) == session[c] # None

\* monitor_performance (app1.py): after the view has returned, its duration is
\* inserted into quality_metrics; when that insert raises, the exception is
\* raised again and leaves the view
monitor_performance(out, metrics_ok) ==
    IF metrics_ok THEN out ELSE [out EXCEPT !.body = InternalServerError]

\* re.search(r'[<>"\']|script', username + email, re.IGNORECASE)
register_xss(username, email) ==
    LET text == username \o email
    IN  \/ \E i \in 1..Len(text) : text[i] \in {"<", ">", "\"", "'"}
        \/ HasSub(LowerStr(text), <<"s", "c", "r", "i", "p", "t">>)

Existing(username, email) ==
    \E i \in 1..Len(users) : users[i].username = username \/ users[i].email = email

InsertUser(username, email, password) ==
    Append(users, [id |-> Len(users) + 1, username |-> username, email |-> email,
                   password_hash |-> generate_password_hash(password)])

\* register, POST, app.py
register(username, email, password, confirm_password, select_ok, insert_ok) ==
    IF username = <<>> \/ email = <<>> \/ password = <<>>
    THEN [users |-> users, body |-> render_template("register.html", NoContext),
          flashed |-> <<Flash("All fields are required.", "error")>>]
    ELSE IF password # confirm_password
    THEN [users |-> users, body |-> render_template("register.html", NoContext),
          flashed |-> <<Flash("Passwords do not match.", "error")>>]
    ELSE IF Len(password) < 6
    THEN [users |-> users, body |-> render_template("register.html", NoContext),
          flashed |-> <<Flash("Password must be at least 6 characters long.", "error")>>]
    ELSE IF ~select_ok
    THEN [users |-> users, body |-> render_template("register.html", NoContext),
          flashed |-> <<Flash("Registration failed. Please try again.", "error")>>]
    ELSE IF Existing(username, email)
    THEN [users |-> users, body |-> redirect("login"),
          flashed |-> <<Flash("Username or email already exists. Please log in.", "error")>>]
    ELSE IF ~insert_ok
    THEN [users |-> users, body |-> render_template("register.html", NoContext),
          flashed |-> <<Flash("Registration failed. Please try again.", "error")>>]
    ELSE [users |-> InsertUser(username, email, password), body |-> redirect("login"),
          flashed |-> <<Flash("Registration successful! Please log in.", "success")>>]

\* register, POST, app1.py (without its monitor_performance)
register1(username, email, password, confirm_password, select_ok, insert_ok) ==
    IF username = <<>> \/ email = <<>> \/ password = <<>>
    THEN [users |-> users, body |-> render_template("register.html", NoContext),
          flashed |-> <<Flash("All fields are required.", "error")>>]
    ELSE IF register_xss(username, email)
    THEN [users |-> users, body |-> render_template("register.html", NoContext),
          flashed |-> <<Flash("Invalid characters in input.", "error")>>]
    ELSE IF password # confirm_password
    THEN [users |-> users, body |-> render_template("register.html", NoContext),
          flashed |-> <<Flash("Passwords do not match.", "error")>>]
    ELSE IF Len(password) < 6
    THEN [users |-> users, body |-> render_template("register.html", NoContext),
          flashed |-> <<Flash("Password must be at least 6 characters.", "error")>>]
    ELSE IF ~select_ok
    THEN [users |-> users, body |-> render_template("register.html", NoContext),
          flashed |-> <<Flash("Registration failed. Please try again.", "error")>>]
    ELSE IF Existing(username, email)
    THEN [users |-> users, body |-> render_template("register.html", NoContext),
          flashed |-> <<Flash("Username or email already exists.", "error")>>]
    ELSE IF ~insert_ok
    THEN [users |-> users, body |-> render_template("register.html", NoContext),
          flashed |-> <<Flash("Registration failed. Please try again.", "error")>>]
    ELSE [users |-> InsertUser(username, email, password), body |-> redirect("login"),
          flashed |-> <<Flash("Registration successful! Please log in.", "success")>>]

\* the record of a served request; validated is the argument and the return of
\* the validate_kwh_input call the view made, if it made one, and save_ret what
\* its save_calculation call returned, if it made one
Served(c, route, out, validated) ==
    Some([client |-> c, route |-> route, body |-> out.body, flashed |-> out.flashed,
          validated |-> validated,
          save_ret |-> IF "save_ret" \in DOMAIN out THEN out.save_ret ELSE None])

Register ==
    \E c \in Clients, form \in RegisterForms, db \in DbOutcomes :
        LET username == strip(form.username)
            email == strip(form.email)
            password == strip(form.password)
            confirm_password == strip(form.confirm_password)
            out == IF variant = "app"
                   THEN register(username, email, password, confirm_password,
                                 db.first_ok, db.then_ok)
                   ELSE monitor_performance(
                            register1(username, email, password, confirm_password,
                                      db.first_ok, db.then_ok),
                            db.metrics_ok)
        IN  /\ users' = out.users
            /\ resp' = Served(c, "/register", out, None)
            /\ UNCHANGED <<server_vars, validate_vars, calc_vars, now, variant, calculations,
                           session, baseline>>

FindUser(username) ==
    IF \E i \in 1..Len(users) : users[i].username = username
    THEN Some(users[CHOOSE i \in 1..Len(users) : users[i].username = username])
    ELSE None

\* login with a slip: the password is not compared with the stored hash
login_any_password(c, username, password, db_ok) ==
    IF username = <<>> \/ password = <<>>
    THEN [session |-> session, body |-> render_template("login.html", NoContext),
          flashed |-> <<Flash(IF variant = "app"
                              THEN "Please enter both username and password."
                              ELSE "Please enter username and password.", "error")>>]
    ELSE IF ~db_ok
    THEN [session |-> session, body |-> render_template("login.html", NoContext),
          flashed |-> <<Flash("Login failed. Please try again.", "error")>>]
    ELSE LET user == FindUser(username)
         IN  IF user # None
             THEN [session |-> [session EXCEPT ![c] =
                                    Some([user_id |-> user[1].id,
                                          username |-> user[1].username])],
                   body |-> redirect("calculator"),
                   flashed |-> <<Flash(<<"Welcome back, ", user[1].username, "!">>,
                                       "success")>>]
             ELSE [session |-> session,
                   body |-> render_template("login.html", NoContext),
                   flashed |-> <<Flash("Invalid username or password.", "error")>>]

\* login, POST, app.py and app1.py: the two differ in the text of the first flash
login(c, username, password, db_ok) ==
    IF username = <<>> \/ password = <<>>
    THEN [session |-> session, body |-> render_template("login.html", NoContext),
          flashed |-> <<Flash(IF variant = "app"
                              THEN "Please enter both username and password."
                              ELSE "Please enter username and password.", "error")>>]
    ELSE IF ~db_ok
    THEN [session |-> session, body |-> render_template("login.html", NoContext),
          flashed |-> <<Flash("Login failed. Please try again.", "error")>>]
    ELSE LET user == FindUser(username)
         IN  IF user # None /\ check_password_hash(user[1].password_hash, password)
             THEN [session |-> [session EXCEPT ![c] =
                                    Some([user_id |-> user[1].id,
                                          username |-> user[1].username])],
                   body |-> redirect("calculator"),
                   flashed |-> <<Flash(<<"Welcome back, ", user[1].username, "!">>,
                                       "success")>>]
             ELSE [session |-> session,
                   body |-> render_template("login.html", NoContext),
                   flashed |-> <<Flash("Invalid username or password.", "error")>>]

Login ==
    \E c \in Clients, form \in LoginForms, db \in OneStatement :
        LET username == strip(form.username)
            password == strip(form.password)
            out == IF variant = "app"
                   THEN login(c, username, password, db.first_ok)
                   ELSE monitor_performance(login(c, username, password, db.first_ok),
                                            db.metrics_ok)
        IN  /\ session' = out.session
            /\ resp' = Served(c, "/login", out, None)
            /\ UNCHANGED <<server_vars, validate_vars, calc_vars, now, variant, users,
                           calculations, baseline>>

\* logout: session.clear(); neither application monitors it
Logout ==
    \E c \in Clients :
        /\ session' = [session EXCEPT ![c] = None]
        /\ resp' = Served(c, "/logout",
                          [body |-> redirect("login"),
                           flashed |-> <<Flash(IF variant = "app"
                                               THEN "You have been logged out successfully."
                                               ELSE "Logged out successfully.",
                                               "success")>>],
                          None)
        /\ UNCHANGED <<server_vars, validate_vars, calc_vars, now, variant, users, calculations,
                       baseline>>

\* DEFAULT with a slip: CURRENT_TIME, the time of day, with midnight between
\* tick 0 and tick 1
CURRENT_TIME == (now + 1) % 2

\* calculated_at TIMESTAMP DEFAULT CURRENT_TIMESTAMP: the clock at the insert
CURRENT_TIMESTAMP == now

\* save_calculation with a slip: the two values are bound in the other order
save_calculation_swapped(user_id, kwh_input, co2_result, save_ok) ==
    IF save_ok
    THEN [calculations |->
              Append(calculations,
                     [id |-> Len(calculations) + 1, user_id |-> user_id,
                      kwh_input |-> co2_result, co2_result |-> kwh_input,
                      calculated_at |-> CURRENT_TIMESTAMP]),
          ret |-> TRUE]
    ELSE [calculations |-> calculations, ret |-> FALSE]

\* save_calculation with a slip: the INSERT is executed a second time
save_calculation_twice(user_id, kwh_input, co2_result, save_ok) ==
    IF save_ok
    THEN LET row(id) == [id |-> id, user_id |-> user_id, kwh_input |-> kwh_input,
                         co2_result |-> co2_result,
                         calculated_at |-> CURRENT_TIMESTAMP]
         IN  [calculations |-> calculations \o <<row(Len(calculations) + 1),
                                                 row(Len(calculations) + 2)>>,
              ret |-> TRUE]
    ELSE [calculations |-> calculations, ret |-> FALSE]

\* save_calculation with a slip: INSERT OR REPLACE on the user, so that a user
\* keeps one row
save_calculation_replace(user_id, kwh_input, co2_result, save_ok) ==
    IF save_ok
    THEN LET Others(r) == r.user_id # user_id
             kept == SelectSeq(calculations, Others)
         IN  [calculations |->
                  Append(kept,
                         [id |-> Len(kept) + 1, user_id |-> user_id,
                          kwh_input |-> kwh_input, co2_result |-> co2_result,
                          calculated_at |-> CURRENT_TIMESTAMP]),
              ret |-> TRUE]
    ELSE [calculations |-> calculations, ret |-> FALSE]

\* save_calculation, app.py: the insert, True, or False when sqlite3 raises
save_calculation(user_id, kwh_input, co2_result, save_ok) ==
    IF save_ok
    THEN [calculations |->
              Append(calculations,
                     [id |-> Len(calculations) + 1, user_id |-> user_id,
                      kwh_input |-> kwh_input, co2_result |-> co2_result,
                      calculated_at |-> CURRENT_TIMESTAMP]),
          ret |-> TRUE]
    ELSE [calculations |-> calculations, ret |-> FALSE]

\* save_calculation, app1.py
save_calculation1(user_id, category, input_value, co2_result, save_ok) ==
    IF save_ok
    THEN [calculations |->
              Append(calculations,
                     [id |-> Len(calculations) + 1, user_id |-> user_id,
                      category |-> category, kwh_input |-> input_value,
                      co2_result |-> co2_result, calculated_at |-> CURRENT_TIMESTAMP]),
          ret |-> TRUE]
    ELSE [calculations |-> calculations, ret |-> FALSE]

CalculatorPage(error, result, kwh_input) ==
    render_template("calculator.html",
                    [error |-> error, result |-> result, kwh_input |-> kwh_input])

\* calculator with a slip: the save is made before the outcome of the
\* validation is looked at, with 0 for a value that was refused
calculator_save_first(c, form_kwh, save_ok) ==
    IF ~LoggedIn(c)
    THEN [calculations |-> calculations, body |-> redirect("login"),
          flashed |-> <<>>, validated |-> None, save_ret |-> None]
    ELSE LET kwh_input == strip(form_kwh)
             checked == validate_kwh_input(kwh_input)
             validated == Some([arg |-> kwh_input, ret |-> checked])
             kwh_value == IF checked.is_valid THEN checked.value[1]
                          ELSE [num |-> 0, exp |-> 0]
             result == calculate_co2_emission(kwh_value)
             saved == save_calculation(session[c][1].user_id, kwh_value, result, save_ok)
         IN  IF ~checked.is_valid
             THEN [calculations |-> saved.calculations,
                   body |-> CalculatorPage(checked.error, None, kwh_input),
                   flashed |-> <<>>, validated |-> validated, save_ret |-> None]
             ELSE [calculations |-> saved.calculations,
                   body |-> CalculatorPage(None, Some(result), kwh_input),
                   flashed |->
                       IF saved.ret
                       THEN <<Flash("Calculation saved to your history!", "success")>>
                       ELSE <<Flash("Calculation completed but could not be saved to history.",
                                    "warning")>>,
                   validated |-> validated, save_ret |-> Some(saved.ret)]

\* calculator, POST, app.py
calculator(c, form_kwh, save_ok) ==
    IF ~LoggedIn(c)
    THEN [calculations |-> calculations, body |-> redirect("login"),
          flashed |-> <<>>, validated |-> None, save_ret |-> None]
    ELSE LET kwh_input == strip(form_kwh)
             checked == validate_kwh_input(kwh_input)
             validated == Some([arg |-> kwh_input, ret |-> checked])
         IN  IF ~checked.is_valid
             THEN [calculations |-> calculations,
                   body |-> CalculatorPage(checked.error, None, kwh_input),
                   flashed |-> <<>>, validated |-> validated, save_ret |-> None]
             ELSE LET result == calculate_co2_emission(checked.value[1])
                      saved == save_calculation(session[c][1].user_id,
                                                checked.value[1], result, save_ok)
                  IN  [calculations |-> saved.calculations,
                       body |-> CalculatorPage(None, Some(result), kwh_input),
                       flashed |->
                           IF saved.ret
                           THEN <<Flash("Calculation saved to your history!", "success")>>
                           ELSE <<Flash("Calculation completed but could not be saved to history.",
                                        "warning")>>,
                       validated |-> validated, save_ret |-> Some(saved.ret)]

\* require_login with a slip: the guest is shown the empty calculator page
login_required_page ==
    [body |-> CalculatorPage(None, None, <<>>), flashed |-> <<>>]

\* require_login, app1.py
login_required ==
    [body |-> redirect("login"),
     flashed |-> <<Flash("Please login to access this page.", "error")>>]

\* calculator, POST, app1.py (inside require_login, without monitor_performance)
calculator1(c, form_kwh, save_ok) ==
    LET kwh_input == strip(form_kwh)
        checked == validate_kwh_input1(kwh_input)
        validated == Some([arg |-> kwh_input, ret |-> checked])
    IN  IF ~checked.is_valid
        THEN [calculations |-> calculations,
              body |-> CalculatorPage(checked.error, None, kwh_input),
              flashed |-> <<>>, validated |-> validated, save_ret |-> None]
        ELSE LET kwh_value == checked.value[1]
                 obj == ElectricityEmissionCalculator
                 pre == validate_input(obj, kwh_value)
                 done == calculate(obj, kwh_value, now)
             IN  IF pre.raised # None
                 THEN [calculations |-> calculations,
                       body |-> CalculatorPage(Some(pre.raised[1].msg), None, kwh_input),
                       flashed |-> <<>>, validated |-> validated, save_ret |-> None]
                 ELSE IF done.out.raised # None
                 THEN [calculations |-> calculations,
                       body |-> CalculatorPage(Some(done.out.raised[1].msg), None,
                                               kwh_input),
                       flashed |-> <<>>, validated |-> validated, save_ret |-> None]
                 ELSE LET saved == save_calculation1(session[c][1].user_id, "electricity",
                                                     kwh_value, done.out.ret, save_ok)
                      IN  [calculations |-> saved.calculations,
                           body |-> CalculatorPage(None, Some(done.out.ret), kwh_input),
                           flashed |->
                               IF saved.ret
                               THEN <<Flash("Calculation saved successfully!", "success")>>
                               ELSE <<>>,
                           validated |-> validated, save_ret |-> Some(saved.ret)]

\* a calculator request that leaves the table with one of these numbers of rows
CalculatorInto(sizes) ==
    \E c \in Clients :
    \E form_kwh \in ReadBy(c, FormInputs), db \in ReadBy(c, OneStatement) :
        LET out == IF variant = "app" THEN calculator(c, form_kwh, db.first_ok)
                   ELSE IF ~LoggedIn(c)
                   THEN login_required @@ [calculations |-> calculations,
                                           validated |-> None, save_ret |-> None]
                   ELSE monitor_performance(calculator1(c, form_kwh, db.first_ok),
                                            db.metrics_ok)
        IN  /\ Len(out.calculations) \in sizes
            /\ calculations' = out.calculations
            /\ resp' = Served(c, "/calculator", out, out.validated)
            /\ UNCHANGED <<server_vars, validate_vars, calc_vars, now, variant, users, session,
                           baseline>>

Calculator == CalculatorInto(0..MaxRows)

HISTORY_LIMIT == 50

HISTORY_LIMIT1 == 100

\* the query with a slip: the WHERE clause is missing
SelectWhere_all(rows, user_id) == rows

\* the rows of a table that satisfy a condition, in table order
SelectWhere(rows, user_id) ==
    LET Mine(r) == r.user_id = user_id
    IN  SelectSeq(rows, Mine)

\* every order of a sequence
OrdersOf(g) ==
    LET k == Len(g)
    IN  { [i \in 1..k |-> g[p[i]]] :
            p \in {q \in [1..k -> 1..k] : \A i, j \in 1..k : q[i] = q[j] => i = j} }

\* the rows stored from tick oldest to tick t, newest tick first, the rows of one
\* tick in every order
RECURSIVE NewestFirst(_, _, _)
NewestFirst(rows, t, oldest) ==
    IF t < oldest THEN {<<>>}
    ELSE IF t = oldest
    THEN LET At(r) == r.calculated_at = t
         IN  OrdersOf(SelectSeq(rows, At))
    ELSE LET mid == (t + oldest) \div 2
         IN  {newer \o older : newer \in NewestFirst(rows, t, mid + 1),
                                older \in NewestFirst(rows, mid, oldest)}

\* ORDER BY calculated_at DESC: every order of the rows with no later row newer
\* than an earlier one; SQLite leaves the order of rows of equal key open
OrderByCalculatedAtDesc(rows) ==
    LET ticks == {rows[i].calculated_at : i \in 1..Len(rows)}
    IN  IF rows = <<>> THEN {<<>>}
        ELSE NewestFirst(rows,
                         CHOOSE t \in ticks : \A u \in ticks : t >= u,
                         CHOOSE t \in ticks : \A u \in ticks : t <= u)

\* LIMIT with a slip: the page ends one row late
Limit_late(rows, k) == IF Len(rows) <= k THEN rows ELSE SubSeq(rows, 1, k + 1)

Limit(rows, k) == IF Len(rows) <= k THEN rows ELSE SubSeq(rows, 1, k)

\* SELECT kwh_input, co2_result, calculated_at
Columns(rows) ==
    [i \in 1..Len(rows) |->
        [kwh_input |-> rows[i].kwh_input, co2_result |-> rows[i].co2_result,
         calculated_at |-> rows[i].calculated_at]]

\* history, app.py, and inside require_login, app1.py; ordered is the order the
\* query returned
history(c, ordered, db_ok) ==
    IF ~db_ok
    THEN [body |-> redirect("calculator"),
          flashed |-> <<Flash(IF variant = "app"
                              THEN "Error retrieving calculation history."
                              ELSE "Error loading history.", "error")>>]
    ELSE [body |-> render_template("history.html",
                      [calculations |->
                          Columns(Limit(ordered, IF variant = "app" THEN HISTORY_LIMIT
                                                 ELSE HISTORY_LIMIT1))]),
          flashed |-> <<>>]

History ==
    \E c \in Clients :
    \E db \in ReadBy(c, OneStatement) :
        \E ordered \in IF LoggedIn(c)
                       THEN OrderByCalculatedAtDesc(
                                SelectWhere(calculations, session[c][1].user_id))
                       ELSE {<<>>} :
            LET out == IF ~LoggedIn(c)
                       THEN IF variant = "app"
                            THEN [body |-> redirect("login"), flashed |-> <<>>]
                            ELSE login_required
                       ELSE IF variant = "app" THEN history(c, ordered, db.first_ok)
                       ELSE monitor_performance(history(c, ordered, db.first_ok),
                                                db.metrics_ok)
            IN  /\ resp' = Served(c, "/history", out, None)
                /\ UNCHANGED <<server_vars, validate_vars, calc_vars, now, variant, users,
                               calculations, session, baseline>>

\* the kwh texts the calculator view hands to validate_kwh_input
FormTexts == {strip(f) : f \in FormInputs}

Init ==
    /\ raw = <<>>
    /\ app_ret = None
    /\ app1_ret = None
    /\ calc = None
    /\ last_call = None
    /\ now = 0
    /\ variant \in {"app", "app1"}
    /\ users = <<>>
    /\ calculations = <<>>
    /\ session = [c \in Clients |-> None]
    /\ resp = None
    /\ inflight = <<>>
    /\ committed = <<>>
    /\ baseline = [t \in FormTexts |->
                      IF variant = "app" THEN validate_kwh_input(t)
                      ELSE validate_kwh_input1(t)]

Next ==
    \/ Tick
    \/ Register
    \/ Login
    \/ Logout
    \/ Calculator
    \/ History

Spec == Init /\ [][Next]_vars

-----------------------------------------------------------------------------
(* Claims about the web application, checked under Spec *)

-----------------------------------------------------------------------------
(* The history page over long tables.  The application starts on a database *)
(* that two registered users have filled before: the user of the session    *)
(* with n calculations, alternately of 100 and 500 kWh, stored one per      *)
(* tick except for one pair stored within the same tick, and possibly one   *)
(* calculation of the other user.  The sizes lie around the page sizes.     *)

MaxExtra == 1

PageSize(v) == IF v = "app" THEN HISTORY_LIMIT ELSE HISTORY_LIMIT1

HistorySizes(v) == (0..2) \cup ((PageSize(v) - 1)..(PageSize(v) + MaxExtra))

TwoUsers ==
    << [id |-> 1, username |-> <<"a", "l">>, email |-> <<"a", "@", "x">>,
        password_hash |-> generate_password_hash(<<"s", "e", "c", "r", "e", "t">>)],
       [id |-> 2, username |-> <<"b", "o">>, email |-> <<"b", "@", "x">>,
        password_hash |-> generate_password_hash(<<"s", "e", "c", "r", "e", "t">>)] >>

\* a row as save_calculation of the application v stored it
StoredRow(v, id, user_id, kwh_input, calculated_at) ==
    IF v = "app"
    THEN [id |-> id, user_id |-> user_id, kwh_input |-> kwh_input,
          co2_result |-> calculate_co2_emission(kwh_input),
          calculated_at |-> calculated_at]
    ELSE [id |-> id, user_id |-> user_id, category |-> "electricity",
          kwh_input |-> kwh_input,
          co2_result |-> FloatMul(kwh_input,
                                  ElectricityEmissionCalculator._emission_factor),
          calculated_at |-> calculated_at]

\* the tick of the i-th insert when inserts tie and tie + 1 fell into one tick
TickOf(tie, i) == IF tie > 0 /\ i > tie THEN i - 1 ELSE i

HistoryTable(v, n, tie, foreign) ==
    [i \in 1..(n + IF foreign THEN 1 ELSE 0) |->
        IF i > n THEN StoredRow(v, i, 2, D(500, 0), TickOf(tie, n))
        ELSE StoredRow(v, i, 1, IF (n - i) % 2 = 0 THEN D(100, 0) ELSE D(500, 0),
                       TickOf(tie, i))]

InitHistory ==
    /\ raw = <<>>
    /\ app_ret = None
    /\ app1_ret = None
    /\ calc = None
    /\ last_call = None
    /\ variant \in {"app", "app1"}
    /\ users = TwoUsers
    /\ session = [c \in Clients |-> Some([user_id |-> 1, username |-> <<"a", "l">>])]
    /\ \E n \in HistorySizes(variant), foreign \in BOOLEAN, later \in {0, 1} :
        \E tie \in {0} \cup ({n - 1, n - PageSize(variant)} \cap (1..(n - 1))) :
            /\ calculations = HistoryTable(variant, n, tie, foreign)
            /\ now = TickOf(tie, n) + later
    /\ resp = None
    /\ inflight = <<>>
    /\ committed = <<>>
    /\ baseline = [t \in FormTexts |->
                      IF variant = "app" THEN validate_kwh_input(t)
                      ELSE validate_kwh_input1(t)]

NextHistory ==
    \/ CalculatorInto({n + f : n \in HistorySizes(variant), f \in {0, 1}})
    \/ History

SpecHistory == InitHistory /\ [][NextHistory]_vars

\* the rows of the user of client c, in insertion order
RowsOf(c) == SelectWhere(calculations, session[c][1].user_id)

\* the history page a logged-in client was served
Listed ==
    /\ resp # None
    /\ resp[1].route = "/history"
    /\ resp[1].body.kind = "render"
    /\ resp[1].body.template = "history.html"
    /\ session[resp[1].client] # None

Listing == resp[1].body.context.calculations

\* C15: the first row of a user's history page shows the calculation of that
\* user that was stored last, with its input value and its CO2 result, also
\* when the calculation before it was stored within the same tick.
C15_Original ==
    (Listed /\ RowsOf(resp[1].client) # <<>>) =>
        LET mine == RowsOf(resp[1].client)
            last == mine[Len(mine)]
        IN  /\ Listing # <<>>
            /\ Listing[1].kwh_input = last.kwh_input
            /\ Listing[1].co2_result = last.co2_result

CountAt(rows, t) == Cardinality({i \in 1..Len(rows) : rows[i].calculated_at = t})

\* C16: a history page lists rows of its user only, newest first, and at most
\* the page size of them (50 in app.py, 100 in app1.py); when the user has more,
\* every row newer than the oldest row listed is listed.
C16_NewestFirstWithinPage ==
    Listed =>
        LET mine == RowsOf(resp[1].client)
            page == IF variant = "app" THEN 50 ELSE 100
        IN  /\ Len(Listing) = IF Len(mine) <= page THEN Len(mine) ELSE page
            /\ \A i \in 1..(Len(Listing) - 1) :
                  Listing[i].calculated_at >= Listing[i + 1].calculated_at
            /\ \A i \in 1..Len(Listing) :
                  \E j \in 1..Len(mine) :
                      /\ mine[j].kwh_input = Listing[i].kwh_input
                      /\ mine[j].co2_result = Listing[i].co2_result
                      /\ mine[j].calculated_at = Listing[i].calculated_at
            /\ \A j \in 1..Len(mine) :
                  CountAt(Listing, mine[j].calculated_at)
                      <= CountAt(mine, mine[j].calculated_at)
            /\ Listing # <<>> =>
                  \A j \in 1..Len(mine) :
                      mine[j].calculated_at > Listing[Len(Listing)].calculated_at =>
                          CountAt(Listing, mine[j].calculated_at)
                              = CountAt(mine, mine[j].calculated_at)

\* C16 witness: a user with more rows than a page holds, and no row of another
\* user in the table, is served a full page whose first row is newer than its
\* second
C16_Witness ==
    /\ Listed
    /\ Len(RowsOf(resp[1].client)) > PageSize(variant)
    /\ Len(Listing) = PageSize(variant)
    /\ Len(calculations) < Len(RowsOf(resp[1].client)) + 1
    /\ Listing[1].calculated_at > Listing[2].calculated_at

-----------------------------------------------------------------------------
(* The programmatic endpoint /api/calculate of app1.py.  It needs no login  *)
(* and writes to api_logs and quality_metrics only, tables that no route    *)
(* modelled here reads: of those writes only the failure is kept.  The      *)
(* calculator object it builds lives for the request; calc holds the one    *)
(* of the last request.                                                     *)

\* round(x, 2) for x >= 0, on the exact decimal, ties to even
round(x, ndigits) ==
    IF x.exp <= ndigits THEN x
    ELSE LET p == Pow10(x.exp - ndigits)
             q == x.num \div p
             r == x.num % p
         IN  [num |-> IF 2 * r > p \/ (2 * r = p /\ q % 2 = 1) THEN q + 1 ELSE q,
              exp |-> ndigits]

jsonify(body, status) == [kind |-> "json", status |-> status, json |-> body]

\* the JSON bodies posted: None is a request without a JSON body; a key that is
\* absent is None
ApiBodies ==
    {None} \cup
    {Some([category |-> category, value |-> value, vehicle_type |-> vehicle_type]) :
        category \in {None, Some("electricity"), Some("transport"), Some("water"),
                      Some("gas")},
        value \in {None} \cup {Some(v) : v \in CalcValues},
        vehicle_type \in {None, Some("bus"), Some("plane")}}

\* api_calculate (inside monitor_performance, without it): the calculator it
\* built, if any, and the response
api_calculate(data, timestamp, log_ok) ==
    IF data = None
    THEN [calc |-> None,
          body |-> jsonify([success |-> FALSE, error |-> "Internal server error"], 500)]
    ELSE LET category == IF data[1].category = None THEN "electricity"
                         ELSE data[1].category[1]
             value == data[1].value
         IN  IF value = None
             THEN [calc |-> None, body |-> jsonify([error |-> "Value is required"], 400)]
             ELSE IF category \notin {"electricity", "transport", "water"}
             THEN [calc |-> None, body |-> jsonify([error |-> "Invalid category"], 400)]
             ELSE LET obj == CASE category = "electricity" -> ElectricityEmissionCalculator
                               [] category = "water" -> WaterEmissionCalculator
                               [] category = "transport" ->
                                    TransportEmissionCalculator(
                                        IF data[1].vehicle_type = None THEN "car"
                                        ELSE data[1].vehicle_type[1])
                      pre == validate_input(obj, value[1])
                      done == calculate(obj, value[1], timestamp)
                  IN  IF pre.raised # None
                      THEN [calc |-> Some(obj),
                            body |-> jsonify([success |-> FALSE,
                                              error |-> pre.raised[1].msg], 400)]
                      ELSE IF done.out.raised # None
                      THEN [calc |-> Some(done.self),
                            body |-> jsonify([success |-> FALSE,
                                              error |-> done.out.raised[1].msg], 400)]
                      ELSE IF ~log_ok
                      THEN [calc |-> Some(done.self),
                            body |-> jsonify([success |-> FALSE,
                                              error |-> "Internal server error"], 500)]
                      ELSE [calc |-> Some(done.self),
                            body |-> jsonify([success |-> TRUE, category |-> category,
                                              input_value |-> value[1],
                                              co2_emission |-> round(done.out.ret, 2),
                                              unit |-> "kg CO2e"], 200)]

\* the request as it was posted and as it was answered
ApiCalculate ==
    \E data \in ApiBodies, db \in OneStatement :
        LET out == api_calculate(data, now, db.first_ok)
            answered == monitor_performance([body |-> out.body, flashed |-> <<>>],
                                            db.metrics_ok)
        IN  /\ calc' = out.calc
            /\ last_call' = Some([fn |-> "api_calculate", arg |-> data,
                                  out |-> Return(answered.body)])
            /\ UNCHANGED <<server_vars, validate_vars, now, web_vars>>

InitApi ==
    /\ raw = <<>>
    /\ app_ret = None
    /\ app1_ret = None
    /\ calc = None
    /\ last_call = None
    /\ now = 0
    /\ variant = "app1"
    /\ users = <<>>
    /\ calculations = <<>>
    /\ session = <<>>
    /\ resp = None
    /\ inflight = <<>>
    /\ committed = <<>>
    /\ baseline = <<>>

NextApi ==
    \/ Tick
    \/ ApiCalculate

SpecApi == InitApi /\ [][NextApi]_vars

-----------------------------------------------------------------------------
(* Claims about the endpoint, checked under SpecApi *)

Answered == last_call # None /\ last_call[1].fn = "api_calculate"

Posted == last_call[1].arg[1]

Answer == last_call[1].out.ret

\* the categories of the factor table a request names
InTable(data) ==
    /\ data.category \in {None, Some("electricity"), Some("transport"), Some("water")}
    /\ (data.category = Some("transport") /\ data.vehicle_type # None) =>
          data.vehicle_type[1] \in DOMAIN VEHICLE_FACTORS

\* C13: a request for a category, or a transport request for a vehicle type,
\* that is not in the factor table is answered with an error and without a
\* result; it is never computed with another entry's factor.
C13_Original ==
    (Answered /\ last_call[1].arg # None /\ ~InTable(Posted)) =>
        /\ Answer.kind = "error" \/ Answer.status >= 400
        /\ Answer.kind = "json" => "co2_emission" \notin DOMAIN Answer.json

\* C14: a request whose category is not recognised is answered with the
\* invalid-category error whatever its value is: missing, not a number or out
\* of range (the answer of monitor_performance's failure apart).
C14_Original ==
    (Answered /\ last_call[1].arg # None /\ Answer.kind = "json"
        /\ Posted.category \notin {None, Some("electricity"), Some("transport"),
                                   Some("water")}) =>
        Answer = jsonify([error |-> "Invalid category"], 400)

\* a calculator request whose input was accepted and whose save_calculation
\* call returned False
SaveFailed ==
    /\ resp # None
    /\ resp[1].route = "/calculator"
    /\ resp[1].validated # None
    /\ resp[1].validated[1].ret.is_valid
    /\ resp[1].save_ret = Some(FALSE)

\* C11: when the input was accepted and the history write failed, the request
\* still completes: the calculator page is rendered and shows the computed
\* result, value times 0.37.
C11_Original ==
    SaveFailed =>
        /\ resp[1].body.kind = "render"
        /\ resp[1].body.template = "calculator.html"
        /\ resp[1].body.context.result # None
        /\ FloatEq(resp[1].body.context.result[1],
                   Times(resp[1].validated[1].ret.value[1], "electricity"))

\* C12: when the history write of a completed calculation failed, the response
\* carries a message for the user: something was flashed, or the page shows an
\* error.
C12_Original ==
    (SaveFailed /\ resp[1].body.kind = "render") =>
        \/ resp[1].flashed # <<>>
        \/ resp[1].body.context.error # None

\* C17: calculation records are append-only: whatever request is served, every
\* row of the table stays where it is with its user_id, input value, CO2 result
\* and timestamp, and the table does not get shorter.
C17_AppendOnly ==
    [][/\ Len(calculations') >= Len(calculations)
       /\ \A i \in 1..Len(calculations) : calculations'[i] = calculations[i]]_vars

\* C17 witness: the table holds two rows of one user, stored in different ticks,
\* and the request served last registered a user
C17_Witness ==
    /\ Len(calculations) = 2
    /\ calculations[1].user_id = calculations[2].user_id
    /\ calculations[1].calculated_at < calculations[2].calculated_at
    /\ resp # None
    /\ resp[1].route = "/register"
    /\ resp[1].body = redirect("login")
    /\ Len(users) = 2

-----------------------------------------------------------------------------
(* Concurrent calculator requests.  app.run serves every request on a      *)
(* thread of its own.  The form, the session cookie and the locals of a    *)
(* view belong to its request; the threads share the database alone, where *)
(* save_calculation opens a connection of its own and runs one INSERT in   *)
(* one transaction, which sqlite3 applies under its write lock or not at   *)
(* all.  A request that reaches save_calculation therefore takes three     *)
(* steps: the view up to the call, the INSERT, and the rest of the view.   *)
(* Two browsers, of one user or of two, send requests; history requests    *)
(* of the first read the table in between.                                 *)

Browsers == {"c1", "c2"}

\* the forms a browser submits: the first one that is accepted and one that is
\* refused, the second another one that is accepted
ConcurrentInputs(c) ==
    IF c = "c1" THEN { <<" ", "5", "0", "0">>, <<"a", "b", "c">> }
    ELSE { <<"1", "0", "0">> }

\* no thread is followed beyond this number of INSERTs
MaxAttempts == 2

\* the calculator view of the running application, inside require_login and
\* without monitor_performance, with save_calculation returning save_ok
View(c, form_kwh, save_ok) ==
    IF variant = "app" THEN calculator(c, form_kwh, save_ok)
    ELSE IF ~LoggedIn(c)
    THEN login_required @@ [calculations |-> calculations, validated |-> None,
                            save_ret |-> None]
    ELSE calculator1(c, form_kwh, save_ok)

\* the locals of a view at its call of save_calculation
Locals(c, form_kwh) ==
    LET out == View(c, form_kwh, TRUE)
    IN  [form_kwh |-> form_kwh, user_id |-> session[c][1].user_id,
         kwh_value |-> out.validated[1].ret.value[1],
         result |-> out.body.context.result[1],
         pc |-> "save", attempts |-> 0, save_ret |-> None]

\* the view from the start to its call of save_calculation, or to its end when
\* it does not get there
Begin ==
    \E c \in Browsers :
    \E form_kwh \in ConcurrentInputs(c) :
    \E metrics_ok \in {o.metrics_ok : o \in DbOutcomes} :
        LET out == View(c, form_kwh, TRUE)
        IN  /\ inflight[c] = None
            /\ IF out.save_ret = None
               THEN /\ resp' = Served(c, "/calculator",
                                      IF variant = "app" \/ ~LoggedIn(c) THEN out
                                      ELSE monitor_performance(out, metrics_ok),
                                      out.validated)
                    /\ UNCHANGED inflight
               ELSE /\ metrics_ok
                    /\ inflight' = [inflight EXCEPT ![c] = Some(Locals(c, form_kwh))]
                    /\ UNCHANGED resp
            /\ UNCHANGED <<validate_vars, calc_vars, now, variant, users, calculations,
                           session, baseline, committed>>

\* save_calculation with a slip: a failed save is tried again
after_save_retry(ret) == IF ret THEN "respond" ELSE "save"

\* where the view goes when save_calculation has returned: both branches of the
\* if flash at most and fall through to render_template
after_save(ret) == "respond"

\* the INSERT of save_calculation, committed or failed
Save ==
    \E c \in Browsers, save_ok \in BOOLEAN :
        /\ inflight[c] # None
        /\ inflight[c][1].pc = "save"
        /\ inflight[c][1].attempts < MaxAttempts
        /\ LET l == inflight[c][1]
               saved == IF variant = "app"
                        THEN save_calculation(l.user_id, l.kwh_value, l.result, save_ok)
                        ELSE save_calculation1(l.user_id, "electricity", l.kwh_value,
                                               l.result, save_ok)
           IN  /\ Len(saved.calculations) <= MaxRows
               /\ calculations' = saved.calculations
               /\ committed' = IF save_ok
                               THEN Append(committed,
                                           [client |-> c, user_id |-> l.user_id,
                                            kwh_input |-> l.kwh_value,
                                            co2_result |-> l.result])
                               ELSE committed
               /\ inflight' = [inflight EXCEPT ![c] =
                                  Some([l EXCEPT !.pc = after_save(saved.ret),
                                                 !.attempts = @ + 1,
                                                 !.save_ret = Some(saved.ret)])]
        /\ UNCHANGED <<validate_vars, calc_vars, now, variant, users, session, resp,
                       baseline>>

\* the rest of the view: the flash, the page and, in app1.py, the insert of
\* monitor_performance
Respond ==
    \E c \in Browsers, metrics_ok \in {o.metrics_ok : o \in DbOutcomes} :
        /\ inflight[c] # None
        /\ inflight[c][1].pc = "respond"
        /\ LET l == inflight[c][1]
               out == View(c, l.form_kwh, l.save_ret[1])
           IN  resp' = Served(c, "/calculator",
                              IF variant = "app" THEN out
                              ELSE monitor_performance(out, metrics_ok),
                              out.validated)
        /\ inflight' = [inflight EXCEPT ![c] = None]
        /\ UNCHANGED <<validate_vars, calc_vars, now, variant, users, calculations,
                       session, baseline, committed>>

InitConcurrent ==
    /\ raw = <<>>
    /\ app_ret = None
    /\ app1_ret = None
    /\ calc = None
    /\ last_call = None
    /\ now = 0
    /\ variant \in {"app", "app1"}
    /\ users = TwoUsers
    /\ calculations = <<>>
    /\ \E other \in {1, 2} :
          session = [c \in Browsers |->
                        LET user == TwoUsers[IF c = "c1" THEN 1 ELSE other]
                        IN  Some([user_id |-> user.id, username |-> user.username])]
    /\ resp = None
    /\ inflight = [c \in Browsers |-> None]
    /\ committed = <<>>
    /\ baseline = [t \in FormTexts |->
                      IF variant = "app" THEN validate_kwh_input(t)
                      ELSE validate_kwh_input1(t)]

NextConcurrent ==
    \/ Tick
    \/ Begin
    \/ Save
    \/ Respond
    \/ History

SpecConcurrent == InitConcurrent /\ [][NextConcurrent]_vars

-----------------------------------------------------------------------------
(* Claims about concurrent requests, checked under SpecConcurrent *)

\* the history page of a logged-in browser is the last answer
HistoryRead ==
    /\ resp # None
    /\ resp[1].route = "/history"
    /\ resp[1].body.kind = "render"
    /\ resp[1].body.template = "history.html"

\* C18: under every interleaving of calculator requests of one user or of two,
\* the table holds one complete row for each request whose INSERT the store
\* accepted, in the order of the commits, with that request's own user_id, input
\* value and result; a request that was told its save succeeded has its row; and
\* every row a history page shows is the row of one request of its user.
C18_OneRecordPerRequest ==
    /\ Len(calculations) = Len(committed)
    /\ \A i \in 1..Len(calculations) :
          /\ {"id", "user_id", "kwh_input", "co2_result", "calculated_at"}
                 \subseteq DOMAIN calculations[i]
          /\ calculations[i].id = i
          /\ calculations[i].user_id = committed[i].user_id
          /\ calculations[i].kwh_input = committed[i].kwh_input
          /\ calculations[i].co2_result = committed[i].co2_result
          /\ calculations[i].calculated_at \in 0..now
    /\ \A c \in DOMAIN inflight :
          (inflight[c] # None /\ inflight[c][1].save_ret = Some(TRUE)) =>
              \E i \in 1..Len(calculations) :
                  /\ committed[i].client = c
                  /\ calculations[i].user_id = inflight[c][1].user_id
                  /\ calculations[i].kwh_input = inflight[c][1].kwh_value
                  /\ calculations[i].co2_result = inflight[c][1].result
    /\ HistoryRead =>
          LET shown == resp[1].body.context.calculations
          IN  /\ \A k \in 1..Len(shown) :
                    \E i \in 1..Len(committed) :
                        /\ committed[i].user_id = session[resp[1].client][1].user_id
                        /\ committed[i].kwh_input = shown[k].kwh_input
                        /\ committed[i].co2_result = shown[k].co2_result
              /\ Len(shown) <= Len(SelectWhere(committed,
                                               session[resp[1].client][1].user_id))

\* C18 witness: two requests of one user with different inputs were in flight
\* together, the one that began second was stored first, both are stored, and a
\* history page shows both rows
C18_Witness ==
    /\ Len(calculations) = 2
    /\ committed[1].client = "c2"
    /\ committed[2].client = "c1"
    /\ calculations[1].user_id = calculations[2].user_id
    /\ calculations[1].kwh_input # calculations[2].kwh_input
    /\ inflight["c1"] # None
    /\ inflight["c1"][1].save_ret = Some(TRUE)
    /\ HistoryRead
    /\ Len(resp[1].body.context.calculations) = 2

\* C19: the rows of one user carry timestamps that never decrease in insertion
\* order, whatever the interleaving of the requests and the ticks of the clock.
C19_TimestampsNonDecreasing ==
    \A i, j \in 1..Len(calculations) :
        (i < j /\ calculations[i].user_id = calculations[j].user_id) =>
            calculations[i].calculated_at <= calculations[j].calculated_at

\* C19 witness: one user has a row of tick 0 and a later row of a later tick,
\* inserted by requests that were in flight together
C19_Witness ==
    /\ Len(calculations) = 2
    /\ calculations[1].user_id = calculations[2].user_id
    /\ calculations[1].calculated_at = 0
    /\ calculations[2].calculated_at > 0
    /\ committed[1].client # committed[2].client
    /\ \E c \in DOMAIN inflight : inflight[c] # None /\ inflight[c][1].pc = "respond"

\* C20: a request makes one INSERT at most: a thread that has not saved yet has
\* made none, and a thread whose save_calculation has returned, True or False,
\* has made one and goes on to its answer.
C20_NeverRetried ==
    \A c \in DOMAIN inflight :
        inflight[c] # None =>
            /\ inflight[c][1].attempts <= 1
            /\ inflight[c][1].pc = "save" =>
                  (inflight[c][1].attempts = 0 /\ inflight[c][1].save_ret = None)
            /\ inflight[c][1].pc = "respond" =>
                  (inflight[c][1].attempts = 1 /\ inflight[c][1].save_ret # None)
            /\ inflight[c][1].save_ret = Some(FALSE) => inflight[c][1].pc = "respond"

\* C20 witness: the INSERT of a request has failed while the table has room and
\* another request is stored, and the request is about to be answered
C20_Witness ==
    /\ inflight["c1"] # None
    /\ inflight["c1"][1].save_ret = Some(FALSE)
    /\ inflight["c1"][1].attempts = 1
    /\ Len(calculations) = 1
    /\ Len(calculations) < MaxRows

-----------------------------------------------------------------------------
(* More claims about the endpoint, checked under SpecApi *)

\* the body of a rejected request: success is false and there is an error text
FailureShape(json) ==
    /\ "success" \in DOMAIN json
    /\ json.success = FALSE
    /\ "error" \in DOMAIN json

\* the body of a computed request
SuccessShape(json, data) ==
    /\ {"success", "category", "input_value", "co2_emission", "unit"} \subseteq DOMAIN json
    /\ json.success = TRUE
    /\ json.category = (IF data.category = None THEN "electricity" ELSE data.category[1])
    /\ json.input_value = data.value[1]
    /\ json.co2_emission = round(json.co2_emission, 2)
    /\ json.unit = "kg CO2e"

\* C21: every JSON answer of /api/calculate has one of two shapes: with status
\* 200 success = true, the category and the value of the request, the result
\* rounded to 2 decimals and the unit "kg CO2e"; with any other status success =
\* false and an error text.
C21_Original ==
    (Answered /\ Answer.kind = "json") =>
        IF Answer.status = 200
        THEN last_call[1].arg # None /\ SuccessShape(Answer.json, Posted)
        ELSE FailureShape(Answer.json)

-----------------------------------------------------------------------------
(* More claims about the calculators, checked under SpecCalc *)

\* lo <= value <= hi for a number value and integers lo, hi, by cross
\* multiplication
Within(value, lo, hi) ==
    /\ value.num >= lo * Pow10(value.exp)
    /\ value.num <= hi * Pow10(value.exp)

\* the last call was calculate, on an object of this class
Called(cls) ==
    /\ last_call # None
    /\ last_call[1].fn = "calculate"
    /\ calc[1].cls = cls

\* C22: a TransportEmissionCalculator accepts a number d exactly when
\* 0 <= d <= 10000, and 0 gives the result 0; a WaterEmissionCalculator accepts
\* a number w exactly when 0 < w <= 100000; a number outside the range raises
\* ValueError, and a refused call returns no result and records nothing.
C22_CategoryRanges ==
    /\ (Called("TransportEmissionCalculator") /\ IsNumber(last_call[1].arg)) =>
          /\ last_call[1].out.raised = None <=> Within(last_call[1].arg, 0, 10000)
          /\ last_call[1].arg.num = 0 => FloatEq(last_call[1].out.ret, D(0, 0))
    /\ (Called("WaterEmissionCalculator") /\ IsNumber(last_call[1].arg)) =>
          /\ last_call[1].out.raised = None <=>
                (last_call[1].arg.num > 0 /\ Within(last_call[1].arg, 0, 100000))
    /\ (\/ Called("TransportEmissionCalculator")
        \/ Called("WaterEmissionCalculator")) =>
          IF last_call[1].out.raised = None
          THEN /\ "ret" \in DOMAIN last_call[1].out
               /\ calc[1]._calculation_history # <<>>
               /\ calc[1]._calculation_history[Len(calc[1]._calculation_history)].input
                      = last_call[1].arg
          ELSE /\ "ret" \notin DOMAIN last_call[1].out
               /\ IsNumber(last_call[1].arg) =>
                      last_call[1].out.raised[1].type = "ValueError"
               /\ \A i \in 1..Len(calc[1]._calculation_history) :
                      calc[1]._calculation_history[i].input # last_call[1].arg

\* C22 witness: a TransportEmissionCalculator has computed 0 for the distance 0
\* and recorded it as its only entry
C22_Witness ==
    /\ Called("TransportEmissionCalculator")
    /\ last_call[1].arg = D(0, 0)
    /\ last_call[1].out.raised = None
    /\ FloatEq(last_call[1].out.ret, D(0, 0))
    /\ Len(calc[1]._calculation_history) = 1
    /\ now > 0

-----------------------------------------------------------------------------
(* More claims about the web application, checked under Spec *)

\* the answer r is that of a calculator request that ended in a validation
\* error: of validate_kwh_input or, in app1.py, of the calculator object
Rejected(r) ==
    /\ r # None
    /\ r[1].route = "/calculator"
    /\ r[1].validated # None
    /\ \/ ~r[1].validated[1].ret.is_valid
       \/ r[1].body.kind = "render" /\ r[1].body.context.error # None

\* C23: a calculator request that ends in a validation error shows no result,
\* has not called save_calculation and leaves the table calculations as it was.
C23_RejectedStoresNothing ==
    [][Rejected(resp') =>
          /\ calculations' = calculations
          /\ resp'[1].save_ret = None
          /\ resp'[1].body.kind = "render" =>
                /\ resp'[1].body.context.result = None
                /\ resp'[1].body.context.error # None]_vars

\* C23 witness: a request with text that is no number has been refused while
\* the table held a calculation
C23_Witness ==
    /\ Rejected(resp)
    /\ resp[1].validated[1].arg = <<"a", "b", "c">>
    /\ resp[1].body.kind = "render"
    /\ resp[1].body.context.error = MSG_NUMBER
    /\ Len(calculations) = 1

\* a session without user_id
Guest(c) == session[c] = None

\* the answer r is that of a request to a protected page
Protected(r) == r # None /\ r[1].route \in {"/calculator", "/history"}

\* C24: a session is a guest's until a login with the right password, a user's
\* until its logout and a guest's again afterwards; the last answer to a guest
\* who asked for the calculator or the history is the redirect to the login
\* page, made without validating, computing or listing anything, and a
\* request of a guest leaves the table calculations as it was.
C24_SessionStateMachine ==
    /\ [](\A c \in DOMAIN session :
            (Guest(c) /\ Protected(resp) /\ resp[1].client = c) =>
                /\ resp[1].body = redirect("login")
                /\ resp[1].validated = None
                /\ resp[1].save_ret = None)
    /\ [][\A c \in DOMAIN session :
            /\ (Guest(c) /\ session'[c] # None) =>
                  /\ resp'[1].route = "/login"
                  /\ resp'[1].client = c
                  /\ resp'[1].flashed # <<>>
                  /\ resp'[1].flashed[1].category = "success"
                  /\ \E i \in 1..Len(users) : users[i].id = session'[c][1].user_id
            /\ (~Guest(c) /\ session'[c] = None) =>
                  /\ resp'[1].route = "/logout"
                  /\ resp'[1].client = c
            /\ (Guest(c) /\ session'[c] = None) =>
                  calculations' = calculations]_vars

\* C24 witness: a user has logged in, stored a calculation and logged out, and
\* the request for the calculator that followed was sent to the login page
C24_Witness ==
    /\ Guest("c1")
    /\ Protected(resp)
    /\ resp[1].route = "/calculator"
    /\ resp[1].body = redirect("login")
    /\ Len(calculations) = 1

\* the form names no registered user, or a registered one with a password that
\* does not match the stored hash
WrongCredentials(form) ==
    LET user == FindUser(strip(form.username))
    IN  \/ user = None
        \/ ~check_password_hash(user[1].password_hash, strip(form.password))

\* what the login route does with a form of client c
Attempt(c, form, db) ==
    IF variant = "app"
    THEN login(c, strip(form.username), strip(form.password), db.first_ok)
    ELSE monitor_performance(login(c, strip(form.username), strip(form.password),
                                   db.first_ok),
                             db.metrics_ok)

InvalidLogin == <<Flash("Invalid username or password.", "error")>>

C26_HistoryAppendOnly ==
    [][(calc # None /\ calc' # None /\ last_call' # None) =>
          LET before == calc[1]._calculation_history
              after == calc'[1]._calculation_history
              call == last_call'[1]
          IN  CASE call.fn = "calculate" /\ call.out.raised = None ->
                      \/ UNCHANGED <<calc, last_call>>
                      \/ /\ Len(after) = Len(before) + 1
                         /\ SubSeq(after, 1, Len(before)) = before
                         /\ after[Len(after)].input = call.arg
                         /\ after[Len(after)].output = call.out.ret
                         /\ after[Len(after)].calculator_type = calc[1].cls
                [] call.fn = "calculate" /\ call.out.raised # None ->
                      after = before
                [] call.fn = "get_history" ->
                      /\ after = before
                      /\ (last_call = None \/ last_call[1].fn # "get_history") =>
                            call.out.ret.items = before
                [] OTHER -> TRUE]_vars

\* C26 witness: the caller has emptied the list get_history returned, and the
\* object still holds its two entries: 100, and 500 after it
C26_Witness ==
    /\ calc # None
    /\ Len(calc[1]._calculation_history) = 2
    /\ calc[1]._calculation_history[1].input = D(100, 0)
    /\ calc[1]._calculation_history[2].input = D(500, 0)
    /\ last_call # None
    /\ last_call[1].fn = "get_history"
    /\ last_call[1].out.ret.items = <<>>

\* C27: in app.py, after any sequence of register, login, logout, calculator
\* and history requests, every row of calculations has the user_id of a
\* registered user, a value v with 0 < v <= 99999 and the result v * 0.37; and
\* a row is added only by the answer to a calculator request, with the
\* user_id of the session that sent it.
C27_StoreInvariant ==
    /\ [](variant = "app" =>
            \A i \in 1..Len(calculations) :
                /\ \E u \in 1..Len(users) : users[u].id = calculations[i].user_id
                /\ calculations[i].kwh_input.num > 0
                /\ Within(calculations[i].kwh_input, 0, 99999)
                /\ FloatEq(calculations[i].co2_result,
                           Times(calculations[i].kwh_input, "electricity")))
    /\ [][(variant = "app" /\ calculations' # calculations) =>
            /\ Len(calculations') = Len(calculations) + 1
            /\ resp'[1].route = "/calculator"
            /\ session[resp'[1].client] # None
            /\ calculations'[Len(calculations')].user_id =
                   session[resp'[1].client][1].user_id]_vars

\* C27 witness: in app.py two users have logged in on the same browser one
\* after the other, and each has stored a calculation of 500 kWh with 185 kg
C27_Witness ==
    /\ variant = "app"
    /\ Len(calculations) = 2
    /\ calculations[1].user_id = 1
    /\ calculations[2].user_id = 2
    /\ FloatEq(calculations[2].kwh_input, D(500, 0))
    /\ FloatEq(calculations[2].co2_result, D(185, 0))

-----------------------------------------------------------------------------
(* More claims about concurrent requests, checked under SpecConcurrent *)

\* the places in the table of the rows of a user
PlacesOf(user_id) == {i \in 1..Len(calculations) : calculations[i].user_id = user_id}

\* the history pages a user may be shown now, one for each order the query may
\* return
PagesFor(c) ==
    {history(c, ordered, TRUE).body :
        ordered \in OrderByCalculatedAtDesc(SelectWhere(calculations,
                                                        session[c][1].user_id))}

\* C28: every row of a history page is a row of the user of the session, and
\* the page has no more rows than that user has; a calculation that another
\* user stores, at any point between the steps of the user's own requests,
\* leaves the pages the user may be shown as they were.
C28_HistoryIsolation ==
    /\ [](Listed =>
            LET mine == PlacesOf(session[resp[1].client][1].user_id)
            IN  /\ Len(Listing) <= Cardinality(mine)
                /\ \A k \in 1..Len(Listing) :
                      \E i \in mine :
                          /\ calculations[i].kwh_input = Listing[k].kwh_input
                          /\ calculations[i].co2_result = Listing[k].co2_result
                          /\ calculations[i].calculated_at = Listing[k].calculated_at)
    /\ [][\A c \in DOMAIN session :
            (/\ Len(calculations') = Len(calculations) + 1
             /\ calculations'[Len(calculations')].user_id # session[c][1].user_id) =>
                PagesFor(c)' = PagesFor(c)]_vars

\* C28 witness: the table holds a calculation of each of two users, and the
\* history page of the first shows one row, its own of 500 kWh
C28_Witness ==
    /\ Listed
    /\ Len(calculations) = 2
    /\ calculations[1].user_id # calculations[2].user_id
    /\ Len(Listing) = 1
    /\ Listing[1].kwh_input = D(500, 0)
    /\ session[resp[1].client][1].user_id = 1

-----------------------------------------------------------------------------
(* Concurrent registrations.  A registration whose form is in order runs   *)
(* two statements on its connection: the SELECT that looks for              *)
(* the username and the e-mail address, and the INSERT with its commit.     *)
(* Requests of other threads may commit between the two.  The columns       *)
(* username and email of table users are declared UNIQUE, so that sqlite3   *)
(* raises IntegrityError from an INSERT that repeats one of them.  Two      *)
(* browsers send the registration forms.                                    *)

\* the table without its constraints: every INSERT is taken
unique_violation_never(username, email) == FALSE

\* username TEXT UNIQUE NOT NULL, email TEXT UNIQUE NOT NULL
unique_violation(username, email) == Existing(username, email)

\* the INSERT and its commit: the table afterwards and the exception raised
insert_user(username, email, password, insert_ok) ==
    IF ~insert_ok THEN [users |-> users, raised |-> Some("OperationalError")]
    ELSE IF unique_violation(username, email)
    THEN [users |-> users, raised |-> Some("IntegrityError")]
    ELSE [users |-> InsertUser(username, email, password), raised |-> None]

\* register after its INSERT: the answer of the try block, or of the except
\* block; the two applications answer alike
register_done(raised) ==
    IF raised = None
    THEN [body |-> redirect("login"),
          flashed |-> <<Flash("Registration successful! Please log in.", "success")>>]
    ELSE [body |-> render_template("register.html", NoContext),
          flashed |-> <<Flash("Registration failed. Please try again.", "error")>>]

\* register from its start to its INSERT, or to its end when it does not get
\* there
RegisterBegin ==
    \E c \in Browsers, form \in RegisterForms, db \in OneStatement :
        LET username == strip(form.username)
            email == strip(form.email)
            password == strip(form.password)
            confirm_password == strip(form.confirm_password)
            out == IF variant = "app"
                   THEN register(username, email, password, confirm_password,
                                 db.first_ok, TRUE)
                   ELSE register1(username, email, password, confirm_password,
                                  db.first_ok, TRUE)
        IN  /\ inflight[c] = None
            /\ IF out.users = users
               THEN /\ resp' = Served(c, "/register",
                                      IF variant = "app" THEN out
                                      ELSE monitor_performance(out, db.metrics_ok),
                                      None)
                    /\ UNCHANGED inflight
               ELSE /\ db.metrics_ok
                    /\ inflight' = [inflight EXCEPT ![c] =
                                       Some([username |-> username, email |-> email,
                                             password |-> password, pc |-> "insert",
                                             raised |-> None])]
                    /\ UNCHANGED resp
            /\ UNCHANGED <<validate_vars, calc_vars, now, variant, users, calculations,
                           session, baseline, committed>>

RegisterInsert ==
    \E c \in Browsers, insert_ok \in BOOLEAN :
        /\ inflight[c] # None
        /\ inflight[c][1].pc = "insert"
        /\ LET l == inflight[c][1]
               done == insert_user(l.username, l.email, l.password, insert_ok)
           IN  /\ users' = done.users
               /\ committed' = IF done.raised = None
                               THEN Append(committed,
                                           [client |-> c, username |-> l.username,
                                            email |-> l.email])
                               ELSE committed
               /\ inflight' = [inflight EXCEPT ![c] =
                                  Some([l EXCEPT !.pc = "respond",
                                                 !.raised = done.raised])]
        /\ UNCHANGED <<validate_vars, calc_vars, now, variant, calculations, session,
                       resp, baseline>>

RegisterRespond ==
    \E c \in Browsers, metrics_ok \in {o.metrics_ok : o \in DbOutcomes} :
        /\ inflight[c] # None
        /\ inflight[c][1].pc = "respond"
        /\ resp' = Served(c, "/register",
                          IF variant = "app" THEN register_done(inflight[c][1].raised)
                          ELSE monitor_performance(register_done(inflight[c][1].raised),
                                                   metrics_ok),
                          None)
        /\ inflight' = [inflight EXCEPT ![c] = None]
        /\ UNCHANGED <<validate_vars, calc_vars, now, variant, users, calculations,
                       session, baseline, committed>>

InitRegister ==
    /\ raw = <<>>
    /\ app_ret = None
    /\ app1_ret = None
    /\ calc = None
    /\ last_call = None
    /\ now = 0
    /\ variant \in {"app", "app1"}
    /\ users = <<>>
    /\ calculations = <<>>
    /\ session = [c \in Browsers |-> None]
    /\ resp = None
    /\ inflight = [c \in Browsers |-> None]
    /\ committed = <<>>
    /\ baseline = [t \in FormTexts |->
                      IF variant = "app" THEN validate_kwh_input(t)
                      ELSE validate_kwh_input1(t)]

NextRegister ==
    \/ RegisterBegin
    \/ RegisterInsert
    \/ RegisterRespond

SpecRegister == InitRegister /\ [][NextRegister]_vars

-----------------------------------------------------------------------------
(* Claims about concurrent registrations, checked under SpecRegister *)

\* C29: under every interleaving of registrations no two rows of users share a
\* username or an e-mail address, and each row is that of one request whose
\* INSERT was committed; a request whose INSERT raised, as that of the loser of
\* a race past the SELECT does, adds no row and is answered with the
\* registration page and "Registration failed. Please try again." (or, in
\* app1.py, with the error of monitor_performance's own insert).
C29_UniqueUsers ==
    /\ [](/\ \A i, j \in 1..Len(users) :
                i # j => /\ users[i].username # users[j].username
                         /\ users[i].email # users[j].email
          /\ Len(users) = Len(committed)
          /\ \A i \in 1..Len(users) :
                /\ users[i].username = committed[i].username
                /\ users[i].email = committed[i].email
          /\ \A c \in DOMAIN inflight :
                (inflight[c] # None /\ inflight[c][1].raised = Some("IntegrityError")) =>
                    \E i \in 1..Len(users) :
                        /\ committed[i].client # c
                        /\ \/ users[i].username = inflight[c][1].username
                           \/ users[i].email = inflight[c][1].email)
    /\ [][\A c \in DOMAIN inflight :
            (/\ inflight[c] # None
             /\ inflight[c][1].raised # None
             /\ inflight'[c] = None) =>
                /\ users' = users
                /\ resp'[1].client = c
                /\ resp'[1].route = "/register"
                /\ \/ /\ resp'[1].body = render_template("register.html", NoContext)
                      /\ resp'[1].flashed =
                             <<Flash("Registration failed. Please try again.", "error")>>
                   \/ /\ variant = "app1"
                      /\ resp'[1].body = InternalServerError]_vars

\* C29 witness: two browsers sent the same username, both passed the SELECT,
\* the second inserted the row and the INSERT of the first raised
\* IntegrityError; the table holds the one row
C29_Witness ==
    /\ Len(users) = 1
    /\ committed[1].client = "c2"
    /\ inflight["c1"] # None
    /\ inflight["c1"][1].raised = Some("IntegrityError")
    /\ inflight["c1"][1].username = users[1].username
    /\ inflight["c2"] # None

-----------------------------------------------------------------------------
(* The two validators compared, checked under SpecValidate *)

\* C30: for every raw string the validate_kwh_input of app.py accepts it
\* exactly when that of app1.py does, and with the same value; and for a
\* plain decimal the two return the same outcome, rejection message included:
\* what app1.py screens in addition never occurs in a plain decimal.
C30_ValidatorsAgree ==
    (Returned(app_ret) /\ Returned(app1_ret)) =>
        /\ app_ret[1].is_valid <=> app1_ret[1].is_valid
        /\ app_ret[1].is_valid => app_ret[1].value = app1_ret[1].value
        /\ PlainDecimal(raw) =>
              /\ app_ret[1] = app1_ret[1]
              /\ ~Screened(raw)

\* C30 witness: both validators have rejected the plain decimal -1 with
\* "Value must be greater than 0."
C30_Witness ==
    /\ raw = <<"-", "1">>
    /\ PlainDecimal(raw)
    /\ Returned(app_ret)
    /\ Returned(app1_ret)
    /\ RejectedWith(app_ret, "Value must be greater than 0.")
    /\ RejectedWith(app1_ret, "Value must be greater than 0.")

=============================================================================
